---- MODULE Spec2Model ----
(***************************************************************************)
(* HubSpot CRM skill: the tool entry points, the core operations they call *)
(* and the remote CRM they talk to.  One invocation runs at a time; every  *)
(* awaited fetch is one step, taken together with the synchronous code     *)
(* that follows it up to the next fetch or the return.                     *)
(***************************************************************************)
EXTENDS Integers, Sequences, FiniteSets, TLC

VARIABLES
  token,        \* env("HUBSPOT_PRIVATE_APP_TOKEN") is configured
  remote,       \* shape of the remote data: which lists and timestamps it may serve
  budget,       \* association entries the remote may still return
  outages,      \* association fetches the remote may still fail
  op,           \* the entry point being executed
  input,        \* its argument
  pc,           \* the fetch the invocation is about to issue, "idle" or "done"
  reqs,         \* HTTP requests issued so far, in order
  result,       \* what the entry point handed to its caller
  contactId,    \* getContactActivitySummary: the contactId parameter
  contactData,  \* getContactActivitySummary: parsed contact body
  ki,           \* getContactActivitySummary: index of engType in engagementTypes
  ids,          \* getContactActivitySummary: associationIds of the current engType
  di,           \* getContactActivitySummary: index of engId in recentIds
  summaries,    \* getContactActivitySummary: summaries
  allItems,     \* getContactActivitySummary: allItems
  served,       \* what the remote association index answered, per kind
  detServed,    \* what the remote answered to each detail request, per kind
  found,        \* tools: the result of the first call (search / deal lookup)
  contactServed,\* what the remote answered to the contact request
  searchServed, \* what the remote answered to the contact search
  dealServed,   \* what the remote answered to the deal lookup of a tool
  earlier       \* the finished earlier invocation and what the remote served it

vars == <<token, remote, budget, outages, op, input, pc, reqs, result, contactId,
          contactData, ki, ids, di, summaries, allItems, served, detServed, found,
          contactServed, searchServed, dealServed, earlier>>

sumVars == <<contactId, contactData, ki, ids, di, summaries, allItems, served, detServed>>

----------------------------------------------------------------------------
\* Bounds of the remote data and program constants

\* association entries over all kinds when records carry varied timestamps
MaxWide == 2
\* association entries over all kinds when one kind has a long list
MaxDeep == 6
\* association fetches that fail within one invocation
MaxOutages == 2
\* association entries over all kinds in the small configurations: an invocation
\* through the tool, or a remote whose contact body is the JSON null
MaxSmall == 1
\* associationIds.slice(0, 5)
SampleCap == 5

Absent == "<undefined>"
Miss == "<miss>"

Truthy(v) == v # Absent /\ v # ""

Get(r, f) == IF f \in DOMAIN r THEN r[f] ELSE Absent

Range(s) == {s[i] : i \in DOMAIN s}

RECURSIVE SumSeq(_)
SumSeq(s) == IF s = <<>> THEN 0 ELSE Head(s) + SumSeq(Tail(s))

----------------------------------------------------------------------------
\* HTTP responses

Throw == [net |-> "throw"]
Resp(status, body) == [net |-> "up", status |-> status, body |-> body]
Malformed == [json |-> "malformed"]
JsonNull == [json |-> "null"]
Obj(fields) == [json |-> "object", fields |-> fields]

\* res.ok
ResOk(res) == res.status >= 200 /\ res.status <= 299

\* (body as { message?: string })?.message ?? JSON.stringify(body)
MessageOrJson(body) ==
  IF body.json = "object" /\ Get(body.fields, "message") # Absent
  THEN <<body.fields.message>>
  ELSE <<"JSON.stringify(body)">>

\* err instanceof Error ? err.message : String(err)
FetchFailed == <<"fetch failed">>
JsonParseError == <<"Unexpected token in JSON">>
TypeErrorNull == <<"Cannot read properties of null">>

\* variant: every request is sent as a PATCH
ReqWriting(method, url) == [method |-> "PATCH", url |-> url]

Req(method, url) == [method |-> method, url |-> url]
ReqBody(method, url, body) == [method |-> method, url |-> url, body |-> body]

----------------------------------------------------------------------------
\* Result envelopes

NoResult == [kind |-> "none"]
Thrown(e) == [kind |-> "thrown", error |-> e]
Fail(e) == [kind |-> "returned", ok |-> FALSE, error |-> e]
FailStatus(st, e) == [kind |-> "returned", ok |-> FALSE, status |-> st, error |-> e]

MissingToken == <<"Missing HUBSPOT_PRIVATE_APP_TOKEN", " in environment.">>

Contains(err, piece) == \E i \in DOMAIN err : err[i] = piece

----------------------------------------------------------------------------
\* engagements: getContactAssociations, getEngagementDetails, extractEngagementInfo

engagementTypes == <<"calls", "emails", "notes", "tasks", "meetings">>
KindSet == Range(engagementTypes)

EngIdNames == <<"e1", "e2", "e3", "e4", "e5", "e6", "e7", "e8", "e9">>

\* variant: the same mapping without .filter(Boolean)
ToObjectIdsUnfiltered(results) ==
  [i \in DOMAIN results |->
     IF Get(results[i], "toObjectId") = Absent THEN "" ELSE results[i].toObjectId]

\* (body.results ?? []).map((r) => r.toObjectId ?? "").filter(Boolean)
ToObjectIds(results) ==
  SelectSeq([i \in DOMAIN results |->
               IF Get(results[i], "toObjectId") = Absent THEN "" ELSE results[i].toObjectId],
            Truthy)

\* variant: a failed fetch hands back one identifier instead of the empty list
getContactAssociationsStale(res) ==
  IF res.net = "throw" THEN <<"e1">>
  ELSE IF ~ResOk(res) THEN <<"e1">>
  ELSE IF res.body.json # "object" THEN <<"e1">>
  ELSE IF "results" \notin DOMAIN res.body.fields THEN <<>>
  ELSE ToObjectIds(res.body.fields.results)

getContactAssociations(res) ==
  IF res.net = "throw" THEN <<>>
  ELSE IF ~ResOk(res) THEN <<>>
  ELSE IF res.body.json # "object" THEN <<>>
  ELSE IF "results" \notin DOMAIN res.body.fields THEN <<>>
  ELSE ToObjectIds(res.body.fields.results)

\* variant: no slice, every identifier is detail-fetched
recentIdsAll(associationIds) == associationIds

\* associationIds.slice(0, 5)
recentIds(associationIds) ==
  SubSeq(associationIds, 1,
         IF Len(associationIds) < SampleCap THEN Len(associationIds) ELSE SampleCap)

\* variant: a failed detail fetch hands back an empty record instead of null
getEngagementDetailsPlaceholder(res) ==
  IF res.net = "throw" THEN Obj([id |-> ""])
  ELSE IF ~ResOk(res) THEN Obj([id |-> ""])
  ELSE IF res.body.json = "malformed" THEN JsonNull
  ELSE res.body

getEngagementDetails(res) ==
  IF res.net = "throw" THEN JsonNull
  ELSE IF ~ResOk(res) THEN JsonNull
  ELSE IF res.body.json = "malformed" THEN JsonNull
  ELSE res.body

getPropertiesForType(type) ==
  CASE type = "calls" -> <<"hs_call_title", "hs_call_body", "hs_call_status", "hs_call_direction", "hs_createdate">>
    [] type = "emails" -> <<"hs_email_subject", "hs_email_text", "hs_email_status", "hs_email_direction", "hs_createdate">>
    [] type = "notes" -> <<"hs_note_body", "hs_createdate">>
    [] type = "tasks" -> <<"hs_task_subject", "hs_task_body", "hs_task_status", "hs_createdate">>
    [] type = "meetings" -> <<"hs_meeting_title", "hs_meeting_body", "hs_meeting_outcome", "hs_createdate">>
    [] OTHER -> <<"hs_createdate">>

extractEngagementInfo(type, data) ==
  LET props == IF "properties" \in DOMAIN data.fields THEN data.fields.properties ELSE [x \in {} |-> Absent]
      id == IF Get(data.fields, "id") = Absent THEN "" ELSE data.fields.id
      P(n) == Get(props, n)
  IN CASE type = "calls" ->
            [id |-> id, createdAt |-> P("hs_createdate"), subject |-> P("hs_call_title"),
             body |-> P("hs_call_body"), status |-> P("hs_call_status"),
             direction |-> P("hs_call_direction")]
       [] type = "emails" ->
            [id |-> id, createdAt |-> P("hs_createdate"), subject |-> P("hs_email_subject"),
             body |-> P("hs_email_text"), status |-> P("hs_email_status"),
             direction |-> P("hs_email_direction")]
       [] type = "notes" ->
            [id |-> id, createdAt |-> P("hs_createdate"), body |-> P("hs_note_body")]
       [] type = "tasks" ->
            [id |-> id, createdAt |-> P("hs_createdate"), subject |-> P("hs_task_subject"),
             body |-> P("hs_task_body"), status |-> P("hs_task_status")]
       [] type = "meetings" ->
            [id |-> id, createdAt |-> P("hs_createdate"), subject |-> P("hs_meeting_title"),
             body |-> P("hs_meeting_body"), status |-> P("hs_meeting_outcome")]
       [] OTHER -> [id |-> id, createdAt |-> P("hs_createdate")]

----------------------------------------------------------------------------
\* getContactActivitySummary: sort, totals, most-recent marker, result

NaN == [nan |-> TRUE, v |-> 0]
Num(n) == [nan |-> FALSE, v |-> n]

\* new Date(s).getTime(): milliseconds, kept up to order; NaN when s does not parse
GetTime(s) ==
  CASE s = "2024-01-01T09:00:00Z" -> Num(1)
    [] s = "2024-06-01T09:00:00Z" -> Num(2)
    [] OTHER -> NaN

\* a.createdAt ? new Date(a.createdAt).getTime() : 0
DateOf(a) == IF Truthy(a.createdAt) THEN GetTime(a.createdAt) ELSE Num(0)

\* (a, b) => dateB - dateA
compareFn(a, b) ==
  IF DateOf(a).nan \/ DateOf(b).nan THEN NaN ELSE Num(DateOf(b).v - DateOf(a).v)

\* Array.prototype.sort reads a NaN from the comparator as +0
SortCompare(a, b) == IF compareFn(a, b).nan THEN 0 ELSE compareFn(a, b).v

\* the comparator is a consistent comparator for the values of s
ConsistentComparator(s) ==
  \A c \in {[i \in DOMAIN s, j \in DOMAIN s |-> SortCompare(s[i], s[j])]} :
  \A i, j, k \in DOMAIN s :
    /\ (c[i, j] = 0 /\ c[j, k] = 0) => c[i, k] = 0
    /\ (c[i, j] < 0 /\ c[j, k] < 0) => c[i, k] < 0
    /\ (c[i, j] > 0 /\ c[j, k] > 0) => c[i, k] > 0

RECURSIVE InsertSorted(_, _)
InsertSorted(sorted, x) ==
  IF sorted = <<>> THEN <<x>>
  ELSE IF SortCompare(Head(sorted), x) <= 0
       THEN <<Head(sorted)>> \o InsertSorted(Tail(sorted), x)
       ELSE <<x>> \o sorted

RECURSIVE StableSort(_)
StableSort(s) ==
  IF s = <<>> THEN <<>>
  ELSE InsertSorted(StableSort(SubSeq(s, 1, Len(s) - 1)), s[Len(s)])

\* allItems.sort(compareFn): the stable sort when the comparator is consistent,
\* otherwise an implementation-defined order of the same elements
SortOutcomes(items) ==
  UNION { IF ConsistentComparator(s) THEN {StableSort(s)}
          ELSE {[i \in DOMAIN s |-> s[p[i]]] : p \in Permutations(DOMAIN s)} : s \in {items} }

\* variant: the total counts the sampled items
totalEngagementsOfItems(s) ==
  Len(s.calls.items) + Len(s.emails.items) + Len(s.notes.items) + Len(s.tasks.items)
    + Len(s.meetings.items)

totalEngagementsOf(s) ==
  s.calls.count + s.emails.count + s.notes.count + s.tasks.count + s.meetings.count

NoRecentActivity == <<"No recent activity found">>

\* variant: the marker names the head only when its createdAt parses
recentActivityDated(items) ==
  IF items # <<>> /\ ~GetTime(items[1].createdAt).nan
  THEN <<"Most recent: ", items[1].type, " on ", items[1].createdAt>>
  ELSE NoRecentActivity

recentActivityOf(items) ==
  IF items # <<>>
  THEN <<"Most recent: ", items[1].type, " on ",
         IF items[1].createdAt = Absent THEN "unknown date" ELSE items[1].createdAt>>
  ELSE NoRecentActivity

\* [firstname, lastname].filter(Boolean).join(" ") || "Unknown"
contactNameOf(data) ==
  LET props == IF "properties" \in DOMAIN data.fields THEN data.fields.properties
               ELSE [x \in {} |-> Absent]
      names == SelectSeq(<<Get(props, "firstname"), Get(props, "lastname")>>, Truthy)
  IN IF names = <<>> THEN <<"Unknown">> ELSE names

\* lines 511-543: the returned object
SummaryEnvelope(data, s, sorted) ==
  [kind |-> "returned", ok |-> TRUE,
   contactId |-> Get(data.fields, "id"),
   contactName |-> contactNameOf(data),
   email |-> IF "properties" \in DOMAIN data.fields
             THEN Get(data.fields.properties, "email") ELSE Absent,
   summary |-> [calls |-> s.calls, emails |-> s.emails, notes |-> s.notes,
                tasks |-> s.tasks, meetings |-> s.meetings,
                totalEngagements |-> totalEngagementsOf(s),
                recentActivity |-> recentActivityOf(sorted)]]

\* variant: a failed association fetch of an earlier kind fails the whole summary
SummaryResultAborting(data, s, sorted) ==
  IF data.json # "object" THEN Fail(TypeErrorNull)
  ELSE IF \E k \in DOMAIN served : served[k].st = "fail" THEN Fail(FetchFailed)
  ELSE SummaryEnvelope(data, s, sorted)

\* lines 505-548: what follows the loop over engagementTypes; contactData.properties
\* of a null contactData throws into the catch
SummaryResult(data, s, sorted) ==
  IF data.json # "object" THEN Fail(TypeErrorNull)
  ELSE SummaryEnvelope(data, s, sorted)

EmptySummaries == [k \in KindSet |-> [type |-> k, count |-> 0, items |-> <<>>]]

----------------------------------------------------------------------------
\* generateActivitySummaryText: a text is the sequence of its lines, a line the
\* sequence of the pieces its template joins

\* items shown per section, and the length a note body is cut to
ShownItems == 3
ShownNotes == 2
PreviewLen == 100

\* a || b
OrElse(v, d) == IF Truthy(v) THEN v ELSE d

\* s.slice(0, n) of an array, s.substring(0, n) of a string
Slice(s, n) == SubSeq(s, 1, IF Len(s) < n THEN Len(s) ELSE n)

\* variant: the body is shown whole
NotePreviewUncut(body) ==
  <<IF Truthy(body) THEN body ELSE "No content",
    IF Truthy(body) /\ Len(body) > PreviewLen THEN "..." ELSE "">>

\* note.body?.substring(0, 100) || "No content", and the marker that follows it
NotePreview(body) ==
  <<IF body = Absent THEN "No content" ELSE OrElse(Slice(body, PreviewLen), "No content"),
    IF Truthy(body) /\ Len(body) > PreviewLen THEN "..." ELSE "">>

SectionOrder == <<"calls", "emails", "meetings", "tasks", "notes">>

SectionTitle(k) ==
  CASE k = "calls" -> "Calls" [] k = "emails" -> "Emails" [] k = "meetings" -> "Meetings"
    [] k = "tasks" -> "Tasks" [] k = "notes" -> "Notes"

\* the fallback of an item without subject
ItemLabel(k) ==
  CASE k = "calls" -> "Call" [] k = "emails" -> "Email" [] k = "meetings" -> "Meeting"
    [] k = "tasks" -> "Task" [] OTHER -> ""

\* the line pushed for one item of a section
ItemLine(k, it) ==
  CASE k = "tasks" ->
         <<"- ", OrElse(Get(it, "subject"), ItemLabel(k)), " - ",
           OrElse(Get(it, "status"), "unknown status")>>
    [] k = "notes" -> <<"- ">> \o NotePreview(Get(it, "body"))
    [] OTHER ->
         <<"- ", OrElse(Get(it, "subject"), ItemLabel(k)), " (",
           OrElse(Get(it, "createdAt"), "unknown date"), ")">>

\* one `if (summary.<kind>.count > 0) { ... }` block
SectionLines(sum, k) ==
  IF sum[k].count > 0
  THEN LET shown == Slice(sum[k].items, IF k = "notes" THEN ShownNotes ELSE ShownItems)
       IN <<<<"### ", SectionTitle(k), " (", ToString(sum[k].count), " total)">>>>
            \o [i \in DOMAIN shown |-> ItemLine(k, shown[i])]
            \o (IF k = "notes" THEN <<>> ELSE <<<<"">>>>)
  ELSE <<>>

generateActivitySummaryText(r) ==
  <<<<"## Activity Summary for ">> \o (IF r.contactName = <<>> THEN <<"Unknown">> ELSE r.contactName)
      \o <<" (", OrElse(r.email, "no email"), ")">>,
    <<"">>,
    <<"**Total Engagements:** ", ToString(r.summary.totalEngagements)>>,
    <<"**">> \o r.summary.recentActivity \o <<"**">>,
    <<"">>>>
  \o SectionLines(r.summary, SectionOrder[1]) \o SectionLines(r.summary, SectionOrder[2])
  \o SectionLines(r.summary, SectionOrder[3]) \o SectionLines(r.summary, SectionOrder[4])
  \o SectionLines(r.summary, SectionOrder[5])

----------------------------------------------------------------------------
\* The remote CRM's answers

NamedContact ==
  Obj([id |-> "c1", properties |-> [email |-> "jane@x.io", firstname |-> "Jane", lastname |-> "Doe"]])
BareContact == Obj([id |-> "c1"])

\* answers to GET /crm/v3/objects/contacts/{id}; r.contact is the contact the remote holds
ContactResponses(r) ==
  { Throw,
    Resp(404, Malformed), Resp(404, JsonNull),
    Resp(404, Obj([message |-> "resource not found"])), Resp(404, Obj([status |-> "error"])),
    Resp(200, Malformed),
    Resp(200, r.contact) }

\* n entries with identifiers e1..en, after `blank` entries without toObjectId
RawResults(n, blank) ==
  [i \in 1..blank |-> [associationTypes |-> "x"]]
    \o [i \in 1..n |-> [toObjectId |-> EngIdNames[i]]]

AssocFailures == {"throw", "status", "malformed", "null"}

\* what the association index may answer: a failure while outages remain, or a
\* list of n identifiers, n within the remaining budget and of a served length
AssocOutcomes(r, b, out) ==
  { [cls |-> c, n |-> 0, blank |-> 0] : c \in IF out > 0 THEN AssocFailures ELSE {} }
  \cup { [cls |-> "noresults", n |-> 0, blank |-> 0] }
  \cup { [cls |-> "list", n |-> n, blank |-> bl] :
           n \in {0} \cup {m \in r.minLen..b : TRUE}, bl \in 0..1 }

AssocResponse(o) ==
  CASE o.cls = "throw" -> Throw
    [] o.cls = "status" -> Resp(500, Obj([message |-> "internal error"]))
    [] o.cls = "malformed" -> Resp(200, Malformed)
    [] o.cls = "null" -> Resp(200, JsonNull)
    [] o.cls = "noresults" -> Resp(200, Obj([paging |-> "x"]))
    [] OTHER -> Resp(200, Obj([results |-> RawResults(o.n, o.blank)]))

\* the association index answered with o.n identifiers, or the fetch failed
ServedOf(o) ==
  IF o.cls \in AssocFailures THEN [st |-> "fail", n |-> 0]
  ELSE [st |-> "ok", n |-> o.n]

DetailOutcomes(st) ==
  { [cls |-> c, createdAt |-> Miss] : c \in {"throw", "status", "malformed", "null"} }
  \cup { [cls |-> "hit", createdAt |-> c] : c \in st }

DetailProps(type, c) ==
  LET names == getPropertiesForType(type)
      given == {names[i] : i \in DOMAIN names} \ (IF c = Absent THEN {"hs_createdate"} ELSE {})
  IN [n \in given |-> IF n = "hs_createdate" THEN c ELSE n]

DetailResponse(type, id, o) ==
  CASE o.cls = "throw" -> Throw
    [] o.cls = "status" -> Resp(404, Obj([message |-> "resource not found"]))
    [] o.cls = "malformed" -> Resp(200, Malformed)
    [] o.cls = "null" -> Resp(200, JsonNull)
    [] OTHER -> Resp(200, Obj([id |-> id, properties |-> DetailProps(type, o.createdAt)]))

\* identifiers of a remote whose lists are short but spread over several kinds
MaxMixed == 3

\* the remote data is wide (short lists, every kind of timestamp), deep (one
\* list reaching past the sample cap, one timestamp), void (the contact GET
\* answers 200 with the JSON null) or mixed (several kinds with one timestamp)
RemoteShapes ==
  { [budget |-> MaxWide, minLen |-> 1, contact |-> NamedContact,
     stamps |-> {Absent, "garbage", "2024-01-01T09:00:00Z", "2024-06-01T09:00:00Z"}],
    [budget |-> MaxDeep, minLen |-> SampleCap - 1, contact |-> BareContact,
     stamps |-> {"2024-01-01T09:00:00Z"}],
    [budget |-> MaxSmall, minLen |-> 1, contact |-> JsonNull,
     stamps |-> {"2024-01-01T09:00:00Z"}],
    [budget |-> MaxMixed, minLen |-> 1, contact |-> BareContact,
     stamps |-> {"2024-01-01T09:00:00Z"}] }

\* answers to POST /crm/v3/objects/contacts and PATCH of a contact or a deal
WriteResponses ==
  { Throw,
    Resp(400, Malformed), Resp(400, JsonNull),
    Resp(409, Obj([message |-> "Contact already exists"])), Resp(400, Obj([status |-> "error"])),
    Resp(200, Malformed), Resp(200, JsonNull),
    Resp(200, Obj([id |-> "c9", properties |-> [hs_object_id |-> "c9"]])) }

\* answers to POST /crm/v3/objects/contacts/search
SearchResponses ==
  { Throw,
    Resp(400, Malformed), Resp(400, JsonNull), Resp(400, Obj([message |-> "bad filter"])),
    Resp(200, Malformed), Resp(200, JsonNull),
    Resp(200, Obj([total |-> "0"])),
    Resp(200, Obj([results |-> <<>>])),
    Resp(200, Obj([results |-> <<[id |-> "c1", properties |-> [email |-> "jane@x.io"]]>>])),
    Resp(200, Obj([results |-> <<[properties |-> [email |-> "jane@x.io"]]>>])) }

\* answers to GET /crm/v3/objects/deals/{id}
DealResponses ==
  { Throw,
    Resp(404, Malformed), Resp(404, JsonNull), Resp(404, Obj([message |-> "resource not found"])),
    Resp(200, Malformed), Resp(200, JsonNull),
    Resp(200, Obj([id |-> "d1", properties |-> [dealstage |-> "qualifiedtobuy"]])) }

\* answers to GET /crm/v3/pipelines/deals
PipelineResponses ==
  { Throw,
    Resp(403, Malformed), Resp(403, JsonNull), Resp(403, Obj([message |-> "missing scope"])),
    Resp(200, Malformed), Resp(200, JsonNull),
    Resp(200, Obj([total |-> "0"])),
    Resp(200, Obj([results |-> <<[id |-> "default", label |-> "Sales"]>>])) }

----------------------------------------------------------------------------
\* Inputs and their schemas

EmailValues == {Absent, "", "not-an-email", "jane@x.io"}
PropNames == {"email", "firstname", "lastname", "phone", "company"}

ContactInputs ==
  [email : EmailValues, firstname : {Absent, "", "Jane"}, lastname : {Absent, "Doe"},
   phone : {Absent, "555-1234"}, company : {Absent, "Acme"}]

UpdateInputs ==
  {[contactId |-> c] @@ i : c \in {"", "c1"},
                            i \in {j \in ContactInputs : j.lastname = Absent /\ j.company = Absent}}

DealInputs == [dealId : {"", "d1"}, dealstage : {"", "closedwon"}, notes : {Absent, "after the call"}]

SummaryToolInputs == [contactId : {Absent, "", "c1"}, email : EmailValues]

\* z.string().email()
IsEmail(v) == v = "jane@x.io"

\* z.string().email().optional()
OptionalEmail(v) == v = Absent \/ IsEmail(v)

\* createContactInputSchema.parse, updateContactInputSchema.parse,
\* getContactActivitySummaryInputSchema.parse succeed
ParsesOptionalEmail(in) == OptionalEmail(in.email)

\* createContactFromChatInputSchema.parse succeeds
ParsesChat(in) == IsEmail(in.email)

ZodError == <<"ZodError">>

\* if (input.email) properties.email = input.email; ... (one line per property)
Properties(in) ==
  [n \in {m \in PropNames : Truthy(in[m])} |-> in[n]]

\* const properties = { email: parsed.email }; if (parsed.firstname) ...
ChatProperties(in) ==
  [n \in {"email"} \cup {m \in PropNames : Truthy(in[m])} |-> in[n]]

----------------------------------------------------------------------------
\* Core operations: what they make of a response

\* createContact, updateContact, updateDealStage: lines after the fetch
WriteResult(res) ==
  IF res.net = "throw" THEN Fail(FetchFailed)
  ELSE IF res.body.json = "malformed" THEN Fail(JsonParseError)
  ELSE IF ~ResOk(res) THEN FailStatus(res.status, MessageOrJson(res.body))
  ELSE [kind |-> "returned", ok |-> TRUE,
        id |-> IF res.body.json = "object" THEN Get(res.body.fields, "id") ELSE Absent,
        properties |-> IF res.body.json = "object" /\ "properties" \in DOMAIN res.body.fields
                       THEN res.body.fields.properties ELSE [x \in {} |-> Absent]]

\* createContactFromChat.tool.ts createContact: no status in the failure
ChatCreateResult(res) ==
  IF res.net = "throw" THEN Fail(FetchFailed)
  ELSE IF res.body.json = "malformed" THEN Fail(JsonParseError)
  ELSE IF ~ResOk(res) THEN Fail(MessageOrJson(res.body))
  ELSE [kind |-> "returned", ok |-> TRUE,
        id |-> IF res.body.json = "object" THEN Get(res.body.fields, "id") ELSE Absent,
        properties |-> IF res.body.json = "object" /\ "properties" \in DOMAIN res.body.fields
                       THEN res.body.fields.properties ELSE [x \in {} |-> Absent]]

\* variant: the status of the answer is not looked at
DealResultAnyStatus(res) ==
  IF res.net = "throw" THEN Fail(FetchFailed)
  ELSE IF res.body.json = "malformed" THEN Fail(JsonParseError)
  ELSE [kind |-> "returned", ok |-> TRUE, deal |-> res.body]

\* getDealById (deals and updateDealStage.tool.ts)
DealResult(res) ==
  IF res.net = "throw" THEN Fail(FetchFailed)
  ELSE IF res.body.json = "malformed" THEN Fail(JsonParseError)
  ELSE IF ~ResOk(res) THEN Fail(MessageOrJson(res.body))
  ELSE [kind |-> "returned", ok |-> TRUE, deal |-> res.body]

\* getDealPipelines
PipelinesResult(res) ==
  IF res.net = "throw" THEN Fail(FetchFailed)
  ELSE IF res.body.json = "malformed" THEN Fail(JsonParseError)
  ELSE IF ~ResOk(res) THEN Fail(MessageOrJson(res.body))
  ELSE [kind |-> "returned", ok |-> TRUE,
        pipelines |-> IF res.body.json = "object" /\ "results" \in DOMAIN res.body.fields
                      THEN res.body.fields.results ELSE <<>>]

\* variant: the result list is never looked at
HasResultsNever(body) == FALSE

\* body.results && body.results.length > 0
HasResults(body) == "results" \in DOMAIN body.fields /\ Len(body.fields.results) > 0

\* variant: a non-success status is read as "no contact"
SearchResultLenient(res) ==
  IF res.net = "throw" THEN Fail(FetchFailed)
  ELSE IF res.body.json = "malformed" THEN Fail(JsonParseError)
  ELSE IF ~ResOk(res) \/ res.body.json = "null" \/ ~HasResults(res.body)
  THEN [kind |-> "returned", ok |-> TRUE, contactId |-> Absent]
  ELSE [kind |-> "returned", ok |-> TRUE,
        contactId |-> Get(res.body.fields.results[1], "id"),
        contact |-> res.body.fields.results[1]]

\* searchContactByEmail (engagements)
SearchResult(res) ==
  IF res.net = "throw" THEN Fail(FetchFailed)
  ELSE IF res.body.json = "malformed" THEN Fail(JsonParseError)
  ELSE IF ~ResOk(res) THEN Fail(MessageOrJson(res.body))
  ELSE IF res.body.json = "null" THEN Fail(TypeErrorNull)
  ELSE IF HasResults(res.body)
       THEN [kind |-> "returned", ok |-> TRUE,
             contactId |-> Get(res.body.fields.results[1], "id"),
             contact |-> res.body.fields.results[1]]
       ELSE [kind |-> "returned", ok |-> TRUE, contactId |-> Absent]

\* searchContactByEmail (createContactFromChat.tool.ts): a non-success status is
\* read as "no contact"
ChatSearchResult(res) ==
  IF res.net = "throw" THEN Fail(FetchFailed)
  ELSE IF res.body.json = "malformed" THEN Fail(JsonParseError)
  ELSE IF ~ResOk(res) THEN [kind |-> "returned", ok |-> TRUE, contactId |-> Absent]
  ELSE IF res.body.json = "null" THEN Fail(TypeErrorNull)
  ELSE IF HasResults(res.body)
       THEN [kind |-> "returned", ok |-> TRUE,
             contactId |-> Get(res.body.fields.results[1], "id"),
             contact |-> res.body.fields.results[1]]
       ELSE [kind |-> "returned", ok |-> TRUE, contactId |-> Absent]

----------------------------------------------------------------------------
\* Entry points

CoreOps ==
  {"getContactActivitySummary", "searchContactByEmail", "createContact", "updateContact",
   "updateDealStage", "getDealPipelines", "getDealById"}
SkillTools ==
  {"CreateContactTool", "CreateContactFromChatTool", "UpdateContactTool", "UpdateDealStageTool",
   "GetDealPipelinesTool", "GetContactActivitySummaryTool"}
FileTools ==
  {"createContact.tool", "createContactFromChat.tool", "updateContact.tool", "updateDealStage.tool"}
Tools == SkillTools \cup FileTools

AlreadyExists(in, existing) ==
  [kind |-> "returned", ok |-> TRUE, alreadyExists |-> TRUE, contactId |-> existing.contactId,
   message |-> <<"Contact with email ", in.email, " already exists in HubSpot">>,
   contact |-> Get(existing, "contact")]

\* what the entry point o hands to its caller when its last call returned r
Deliver(o, r) ==
  IF ~r.ok THEN r
  ELSE IF o \in {"CreateContactFromChatTool", "createContactFromChat.tool"}
  THEN r @@ [alreadyExists |-> FALSE,
             message |-> <<"Successfully created new contact from chat: ", input.email>>]
  ELSE IF o \in {"UpdateDealStageTool", "updateDealStage.tool"}
  THEN r @@ [message |-> <<"Successfully updated deal stage to '", input.dealstage, "'">>,
             previousDeal |-> found.deal]
  ELSE IF o = "GetContactActivitySummaryTool"
  THEN r @@ [summaryText |-> generateActivitySummaryText(r)]
  ELSE r

Init ==
  /\ token \in BOOLEAN
  /\ remote \in RemoteShapes
  /\ budget = remote.budget
  /\ outages = MaxOutages
  /\ op = "none"
  /\ input = [x \in {} |-> Absent]
  /\ pc = "idle"
  /\ reqs = <<>>
  /\ result = NoResult
  /\ contactId = Absent
  /\ contactData = JsonNull
  /\ ki = 0
  /\ ids = <<>>
  /\ di = 0
  /\ summaries = EmptySummaries
  /\ allItems = <<>>
  /\ served = [k \in KindSet |-> [st |-> "none", n |-> 0]]
  /\ detServed = [k \in KindSet |-> <<>>]
  /\ found = NoResult
  /\ contactServed = NoResult
  /\ searchServed = NoResult
  /\ dealServed = NoResult
  /\ earlier = NoResult

\* return r from the entry point o
Return(o, r) == pc' = "done" /\ result' = Deliver(o, r)

----------------------------------------------------------------------------
\* getContactActivitySummary (engagements)

\* lines 433-447: up to the contact fetch
SummaryEntry(o, cid) ==
  IF ~token THEN Return(o, Fail(MissingToken)) /\ UNCHANGED sumVars
  ELSE IF ~Truthy(cid) THEN Return(o, Fail(<<"Contact ID is required.">>)) /\ UNCHANGED sumVars
  ELSE /\ pc' = "contact"
       /\ contactId' = cid
       /\ result' = result
       /\ UNCHANGED <<contactData, ki, ids, di, summaries, allItems, served, detServed>>

CallGetContactActivitySummary ==
  /\ pc = "idle"
  /\ \E cid \in {"", "c1"} :
       /\ op' = "getContactActivitySummary"
       /\ input' = [contactId |-> cid]
       /\ SummaryEntry("getContactActivitySummary", cid)
  /\ UNCHANGED <<earlier, dealServed, searchServed, contactServed, token, remote, budget, outages, reqs, found>>

\* the remote data is unchanged: a later invocation is served what the earlier was
ContactAnswers ==
  IF earlier = NoResult THEN ContactResponses(remote) ELSE {earlier.contactServed}

AssocAnswers(type) ==
  IF earlier = NoResult THEN AssocOutcomes(remote, budget, outages)
  ELSE IF earlier.served[type].st = "fail" THEN {[cls |-> "status", n |-> 0, blank |-> 0]}
  ELSE {[cls |-> "list", n |-> earlier.served[type].n, blank |-> 0]}

DetailAnswers(type, i) ==
  IF earlier = NoResult \/ i \notin DOMAIN earlier.detServed[type]
  THEN DetailOutcomes(remote.stamps)
  ELSE IF earlier.detServed[type][i] = Miss THEN {[cls |-> "status", createdAt |-> Miss]}
  ELSE {[cls |-> "hit", createdAt |-> earlier.detServed[type][i]]}

\* the engine's sort is a function: the list it sorted before is sorted the same way
SortAnswers(all) ==
  IF earlier # NoResult /\ all = earlier.unsorted THEN {earlier.sorted}
  ELSE SortOutcomes(all)

\* variant: summaries lives outside the function and keeps what it held
LeftoverSummaries == summaries

\* lines 473-479: const summaries = { calls: { type: "calls", count: 0, items: [] }, ... }
FreshSummaries == EmptySummaries

\* lines 449-481: the contact fetch, then the locals of the loop
FetchContact ==
  /\ pc = "contact"
  /\ reqs' = Append(reqs, Req("GET", <<"/crm/v3/objects/contacts/", contactId,
                                       "?properties=email,firstname,lastname">>))
  /\ \E res \in ContactAnswers :
       /\ contactServed' = res
       /\ IF res.net = "throw"
          THEN Return(op, Fail(FetchFailed)) /\ UNCHANGED <<contactData, ki, summaries, allItems>>
          ELSE IF res.body.json = "malformed"
          THEN Return(op, Fail(JsonParseError)) /\ UNCHANGED <<contactData, ki, summaries, allItems>>
          ELSE IF ~ResOk(res)
          THEN /\ Return(op, Fail(IF res.body.json = "object" /\ Get(res.body.fields, "message") # Absent
                                  THEN <<res.body.fields.message>>
                                  ELSE <<"Contact not found">>))
               /\ UNCHANGED <<contactData, ki, summaries, allItems>>
          ELSE /\ contactData' = res.body
               /\ summaries' = FreshSummaries
               /\ allItems' = <<>>
               /\ ki' = 1
               /\ pc' = "assoc"
               /\ result' = result
  /\ UNCHANGED <<earlier, dealServed, searchServed, token, remote, budget, outages, op, input, contactId, ids, di,
                 served, detServed, found>>

\* line 502 and the loop header: the kind is finished with summaries s and allItems all;
\* after the last kind, lines 505-543
NextKind(s, all) ==
  IF ki < Len(engagementTypes)
  THEN /\ ki' = ki + 1
       /\ pc' = "assoc"
       /\ summaries' = s
       /\ allItems' = all
       /\ result' = result
  ELSE \E sorted \in SortAnswers(all) :
         /\ ki' = 0
         /\ summaries' = s
         /\ allItems' = sorted
         /\ Return(op, SummaryResult(contactData, summaries', sorted))

\* variant: the count is the number of sampled identifiers
SetCountSampled(s, type, associationIds) ==
  [s EXCEPT ![type].count = Len(recentIds(associationIds))]

\* summaries[engType].count = associationIds.length
SetCount(s, type, associationIds) == [s EXCEPT ![type].count = Len(associationIds)]

\* lines 484-491: the association fetch of one kind
FetchAssociations ==
  /\ pc = "assoc"
  /\ LET type == engagementTypes[ki] IN
     /\ reqs' = Append(reqs, Req("GET", <<"/crm/v4/objects/contacts/", contactId,
                                          "/associations/", type>>))
     /\ \E o \in AssocAnswers(type) :
        \E associationIds \in {getContactAssociations(AssocResponse(o))} :
          /\ budget' = budget - o.n
          /\ outages' = IF o.cls \in AssocFailures THEN outages - 1 ELSE outages
          /\ served' = [served EXCEPT ![type] = ServedOf(o)]
          /\ IF recentIds(associationIds) = <<>>
             THEN /\ NextKind(SetCount(summaries, type, associationIds), allItems)
                  /\ UNCHANGED <<ids, di>>
             ELSE /\ ids' = associationIds
                  /\ di' = 1
                  /\ pc' = "detail"
                  /\ UNCHANGED <<ki, summaries, allItems, result>>
  /\ UNCHANGED <<earlier, dealServed, searchServed, contactServed, token, remote, op, input, contactId, contactData,
                 detServed, found>>

\* lines 493-500: the detail fetch of one sampled identifier
FetchDetail ==
  /\ pc = "detail"
  /\ LET type == engagementTypes[ki]
         engId == recentIds(ids)[di]
     IN
     /\ reqs' = Append(reqs, Req("GET", <<"/crm/v3/objects/", type, "/", engId, "?properties=",
                                          getPropertiesForType(type)>>))
     /\ \E o \in DetailAnswers(type, di) :
        \E details \in {getEngagementDetails(DetailResponse(type, engId, o))} :
        \E info \in {IF details.json = "object" THEN extractEngagementInfo(type, details)
                       ELSE [id |-> "", createdAt |-> Absent]} :
        \E s \in {IF details.json = "object"
                    THEN [summaries EXCEPT ![type].items = Append(@, info)]
                    ELSE summaries} :
        \E all \in {IF details.json = "object"
                      THEN Append(allItems, [type |-> type, createdAt |-> info.createdAt])
                      ELSE allItems} :
          /\ detServed' = [detServed EXCEPT ![type] = Append(@, o.createdAt)]
          /\ IF di < Len(recentIds(ids))
             THEN /\ di' = di + 1
                  /\ summaries' = s
                  /\ allItems' = all
                  /\ UNCHANGED <<pc, ki, ids, result>>
             ELSE /\ di' = 0
                  /\ ids' = <<>>
                  /\ NextKind(SetCount(s, type, ids), all)
  /\ UNCHANGED <<earlier, dealServed, searchServed, contactServed, token, remote, budget, outages, op, input, contactId,
                 contactData, served, found>>

\* the identifiers and stamps of the records served from kind number i on, in
\* the order they were served
RECURSIVE ServedFrom(_)
ServedFrom(i) ==
  IF i > Len(engagementTypes) THEN <<>>
  ELSE LET type == engagementTypes[i]
           hits == SelectSeq([j \in DOMAIN detServed[type] |-> j],
                             LAMBDA j : detServed[type][j] # Miss)
       IN [h \in DOMAIN hits |-> [type |-> type, createdAt |-> detServed[type][hits[h]]]]
            \o ServedFrom(i + 1)

\* a second call of getContactActivitySummary with the same contactId, after the
\* first has returned; the remote and the configuration are what they were
CallAgain ==
  /\ pc = "done"
  /\ op = "getContactActivitySummary"
  /\ earlier = NoResult
  /\ earlier' = [kind |-> "invocation", result |-> result, contactServed |-> contactServed,
                 served |-> served, detServed |-> detServed,
                 unsorted |-> ServedFrom(1), sorted |-> allItems]
  /\ IF ~token THEN Return(op, Fail(MissingToken))
     ELSE IF ~Truthy(input.contactId) THEN Return(op, Fail(<<"Contact ID is required.">>))
     ELSE pc' = "contact" /\ result' = NoResult
  /\ budget' = remote.budget
  /\ outages' = MaxOutages
  /\ reqs' = <<>>
  /\ contactServed' = NoResult
  /\ served' = [k \in KindSet |-> [st |-> "none", n |-> 0]]
  /\ detServed' = [k \in KindSet |-> <<>>]
  /\ contactData' = JsonNull
  /\ UNCHANGED <<token, remote, op, input, found, searchServed, dealServed, contactId, ki, ids, di, summaries,
                 allItems>>

----------------------------------------------------------------------------
\* createContact, updateContact (contacts) and the tools built on them

\* everything but op, input, pc, reqs, result, found
restVars == <<earlier, dealServed, contactServed, searchServed, token, remote, budget, outages, contactId, contactData, ki, ids, di,
              summaries, allItems, served, detServed>>

Throws(e) == pc' = "done" /\ result' = Thrown(e)

\* createContact lines 22-46: up to the POST
CreateEntry(o, in) ==
  IF ~token THEN Return(o, Fail(MissingToken))
  ELSE IF DOMAIN Properties(in) = {} THEN Return(o, Fail(<<"No properties provided.">>))
  ELSE pc' = "create" /\ result' = result

CallCreateContact ==
  /\ pc = "idle"
  /\ \E in \in ContactInputs :
       /\ op' = "createContact"
       /\ input' = in
       /\ CreateEntry("createContact", in)
  /\ UNCHANGED <<reqs, found>>
  /\ UNCHANGED restVars

\* CreateContactTool.execute (skill)
CallCreateContactTool ==
  /\ pc = "idle"
  /\ \E in \in ContactInputs :
       /\ op' = "CreateContactTool"
       /\ input' = in
       /\ IF ~ParsesOptionalEmail(in) THEN Throws(ZodError)
          ELSE CreateEntry("CreateContactTool", in)
  /\ UNCHANGED <<reqs, found>>
  /\ UNCHANGED restVars

\* createContact lines 48-79: the POST and what follows
FetchCreate ==
  /\ pc = "create"
  /\ reqs' = Append(reqs, ReqBody("POST", <<"/crm/v3/objects/contacts">>, Properties(input)))
  /\ \E res \in WriteResponses : Return(op, WriteResult(res))
  /\ UNCHANGED <<op, input, found>>
  /\ UNCHANGED restVars

\* createContact.tool.ts execute, up to the POST
CallCreateContactFileTool ==
  /\ pc = "idle"
  /\ \E in \in ContactInputs :
       /\ op' = "createContact.tool"
       /\ input' = in
       /\ IF ~ParsesOptionalEmail(in) THEN Throws(ZodError)
          ELSE IF ~token THEN Return("createContact.tool", Fail(MissingToken))
          ELSE IF DOMAIN Properties(in) = {}
          THEN Return("createContact.tool", Fail(<<"No properties provided.">>))
          ELSE pc' = "toolCreate" /\ result' = result
  /\ UNCHANGED <<reqs, found>>
  /\ UNCHANGED restVars

\* createContact.tool.ts execute, the POST and what follows
FetchToolCreate ==
  /\ pc = "toolCreate"
  /\ reqs' = Append(reqs, ReqBody("POST", <<"/crm/v3/objects/contacts">>, Properties(input)))
  /\ \E res \in WriteResponses : Return(op, WriteResult(res))
  /\ UNCHANGED <<op, input, found>>
  /\ UNCHANGED restVars

\* updateContact lines 94-122: up to the PATCH
UpdateEntry(o, in) ==
  IF ~token THEN Return(o, Fail(MissingToken))
  ELSE IF ~Truthy(in.contactId) THEN Return(o, Fail(<<"Contact ID is required.">>))
  ELSE IF DOMAIN Properties(in) = {}
  THEN Return(o, Fail(<<"No properties to update provided.">>))
  ELSE pc' = "update" /\ result' = result

CallUpdateContact ==
  /\ pc = "idle"
  /\ \E in \in UpdateInputs :
       /\ op' = "updateContact"
       /\ input' = in
       /\ UpdateEntry("updateContact", in)
  /\ UNCHANGED <<reqs, found>>
  /\ UNCHANGED restVars

\* UpdateContactTool.execute (skill)
CallUpdateContactTool ==
  /\ pc = "idle"
  /\ \E in \in UpdateInputs :
       /\ op' = "UpdateContactTool"
       /\ input' = in
       /\ IF ~ParsesOptionalEmail(in) THEN Throws(ZodError)
          ELSE UpdateEntry("UpdateContactTool", in)
  /\ UNCHANGED <<reqs, found>>
  /\ UNCHANGED restVars

\* updateContact lines 124-155: the PATCH and what follows
FetchUpdate ==
  /\ pc = "update"
  /\ reqs' = Append(reqs, ReqBody("PATCH", <<"/crm/v3/objects/contacts/", input.contactId>>,
                                   Properties(input)))
  /\ \E res \in WriteResponses : Return(op, WriteResult(res))
  /\ UNCHANGED <<op, input, found>>
  /\ UNCHANGED restVars

\* updateContact.tool execute, up to the PATCH
CallUpdateContactFileTool ==
  /\ pc = "idle"
  /\ \E in \in UpdateInputs :
       /\ op' = "updateContact.tool"
       /\ input' = in
       /\ IF ~ParsesOptionalEmail(in) THEN Throws(ZodError)
          ELSE IF ~token THEN Return("updateContact.tool", Fail(MissingToken))
          ELSE IF ~Truthy(in.contactId)
          THEN Return("updateContact.tool", Fail(<<"Contact ID is required.">>))
          ELSE IF DOMAIN Properties(in) = {}
          THEN Return("updateContact.tool", Fail(<<"No properties to update provided.">>))
          ELSE pc' = "toolUpdate" /\ result' = result
  /\ UNCHANGED <<reqs, found>>
  /\ UNCHANGED restVars

\* updateContact.tool execute, the PATCH and what follows
FetchToolUpdate ==
  /\ pc = "toolUpdate"
  /\ reqs' = Append(reqs, ReqBody("PATCH", <<"/crm/v3/objects/contacts/", input.contactId>>,
                                   Properties(input)))
  /\ \E res \in WriteResponses : Return(op, WriteResult(res))
  /\ UNCHANGED <<op, input, found>>
  /\ UNCHANGED restVars

----------------------------------------------------------------------------
\* deals: getDealById, updateDealStage, getDealPipelines and their tools

CouldNotFindDeal(in, e) == <<"Could not find deal with ID ", in.dealId, ": ">> \o e

\* variant: the notes are written along with the stage
DealPropertiesWithNotes(in) ==
  IF Truthy(in.notes) THEN [dealstage |-> in.dealstage, notes |-> in.notes]
  ELSE [dealstage |-> in.dealstage]

\* const properties = { dealstage: input.dealstage }
DealProperties(in) == [dealstage |-> in.dealstage]

\* updateDealStage lines 105-125: up to the PATCH
DealPatchEntry(o, in) ==
  IF ~token THEN Return(o, Fail(MissingToken))
  ELSE IF ~Truthy(in.dealId) THEN Return(o, Fail(<<"Deal ID is required.">>))
  ELSE IF ~Truthy(in.dealstage) THEN Return(o, Fail(<<"Deal stage is required.">>))
  ELSE pc' = "dealPatch" /\ result' = result

CallUpdateDealStage ==
  /\ pc = "idle"
  /\ \E in \in DealInputs :
       /\ op' = "updateDealStage"
       /\ input' = in
       /\ DealPatchEntry("updateDealStage", in)
  /\ UNCHANGED <<reqs, found>>
  /\ UNCHANGED restVars

\* updateDealStage lines 131-162: the PATCH and what follows
FetchDealPatch ==
  /\ pc = "dealPatch"
  /\ reqs' = Append(reqs, ReqBody("PATCH", <<"/crm/v3/objects/deals/", input.dealId>>,
                                   DealProperties(input)))
  /\ \E res \in WriteResponses : Return(op, WriteResult(res))
  /\ UNCHANGED <<op, input, found>>
  /\ UNCHANGED restVars

\* getDealById lines 225-237: up to the GET
CallGetDealById ==
  /\ pc = "idle"
  /\ \E id \in {"", "d1"} :
       /\ op' = "getDealById"
       /\ input' = [dealId |-> id]
       /\ IF ~token THEN Return("getDealById", Fail(MissingToken))
          ELSE pc' = "dealGet" /\ result' = result
  /\ UNCHANGED <<reqs, found>>
  /\ UNCHANGED restVars

\* UpdateDealStageTool.execute (skill), up to the GET of getDealById
CallUpdateDealStageTool ==
  /\ pc = "idle"
  /\ \E in \in DealInputs :
       /\ op' = "UpdateDealStageTool"
       /\ input' = in
       /\ IF ~token
          THEN Return("UpdateDealStageTool", Fail(CouldNotFindDeal(in, MissingToken)))
          ELSE pc' = "dealGet" /\ result' = result
  /\ UNCHANGED <<reqs, found>>
  /\ UNCHANGED restVars

\* getDealById lines 239-264, and UpdateDealStageTool.execute up to the PATCH
FetchDealGet ==
  /\ pc = "dealGet"
  /\ reqs' = Append(reqs, Req("GET", <<"/crm/v3/objects/deals/", input.dealId,
                                       "?properties=dealname,dealstage,amount,closedate,pipeline">>))
  /\ \E res \in DealResponses : \E currentDeal \in {DealResult(res)} :
       IF op = "getDealById"
       THEN Return(op, currentDeal) /\ found' = found /\ dealServed' = dealServed
       ELSE /\ found' = currentDeal
            /\ dealServed' = res
            /\ IF ~currentDeal.ok
               THEN Return(op, Fail(CouldNotFindDeal(input, currentDeal.error)))
               ELSE DealPatchEntry(op, input)
  /\ UNCHANGED <<op, input>>
  /\ UNCHANGED <<earlier, contactServed, searchServed, token, remote, budget, outages, contactId,
                 contactData, ki, ids, di, summaries, allItems, served, detServed>>

\* updateDealStage.tool.ts execute, up to the GET
CallUpdateDealStageFileTool ==
  /\ pc = "idle"
  /\ \E in \in DealInputs :
       /\ op' = "updateDealStage.tool"
       /\ input' = in
       /\ IF ~token THEN Return("updateDealStage.tool", Fail(MissingToken))
          ELSE pc' = "toolDealGet" /\ result' = result
  /\ UNCHANGED <<reqs, found>>
  /\ UNCHANGED restVars

\* updateDealStage.tool.ts getDealById and execute lines 42-48
FetchToolDealGet ==
  /\ pc = "toolDealGet"
  /\ reqs' = Append(reqs, Req("GET", <<"/crm/v3/objects/deals/", input.dealId,
                                       "?properties=dealname,dealstage,amount,closedate,pipeline">>))
  /\ \E res \in DealResponses : \E currentDeal \in {DealResult(res)} :
       /\ found' = currentDeal
       /\ dealServed' = res
       /\ IF ~currentDeal.ok
          THEN Return(op, Fail(CouldNotFindDeal(input, currentDeal.error)))
          ELSE pc' = "toolDealPatch" /\ result' = result
  /\ UNCHANGED <<op, input>>
  /\ UNCHANGED <<earlier, contactServed, searchServed, token, remote, budget, outages, contactId,
                 contactData, ki, ids, di, summaries, allItems, served, detServed>>

\* updateDealStage.tool.ts execute lines 50-82: the PATCH and what follows
FetchToolDealPatch ==
  /\ pc = "toolDealPatch"
  /\ reqs' = Append(reqs, ReqBody("PATCH", <<"/crm/v3/objects/deals/", input.dealId>>,
                                   DealProperties(input)))
  /\ \E res \in WriteResponses : Return(op, WriteResult(res))
  /\ UNCHANGED <<op, input, found>>
  /\ UNCHANGED restVars

\* getDealPipelines lines 166-178 and GetDealPipelinesTool.execute
CallGetDealPipelines ==
  /\ pc = "idle"
  /\ \E o \in {"getDealPipelines", "GetDealPipelinesTool"} :
       /\ op' = o
       /\ input' = [x \in {} |-> Absent]
       /\ IF ~token THEN Return(o, Fail(MissingToken))
          ELSE pc' = "pipelines" /\ result' = result
  /\ UNCHANGED <<reqs, found>>
  /\ UNCHANGED restVars

\* getDealPipelines lines 180-217
FetchPipelines ==
  /\ pc = "pipelines"
  /\ reqs' = Append(reqs, Req("GET", <<"/crm/v3/pipelines/deals">>))
  /\ \E res \in PipelineResponses : Return(op, PipelinesResult(res))
  /\ UNCHANGED <<op, input, found>>
  /\ UNCHANGED restVars

----------------------------------------------------------------------------
\* searchContactByEmail and the tools that start with it

SearchBody(email) ==
  [filterGroups |-> <<[filters |-> <<[propertyName |-> "email", operator |-> "EQ", value |-> email]>>]>>,
   properties |-> <<"email", "firstname", "lastname", "phone", "company">>]

\* searchContactByEmail lines 556-568: up to the POST
CallSearchContactByEmail ==
  /\ pc = "idle"
  /\ \E e \in EmailValues \ {Absent} :
       /\ op' = "searchContactByEmail"
       /\ input' = [email |-> e]
       /\ IF ~token THEN Return("searchContactByEmail", Fail(MissingToken))
          ELSE pc' = "search" /\ result' = result
  /\ UNCHANGED <<reqs, found>>
  /\ UNCHANGED restVars

\* CreateContactFromChatTool.execute (skill), up to the search POST; without a
\* token both searchContactByEmail and createContact return at once
CallCreateContactFromChatTool ==
  /\ pc = "idle"
  /\ \E in \in ContactInputs :
       /\ op' = "CreateContactFromChatTool"
       /\ input' = in
       /\ IF ~ParsesChat(in) THEN Throws(ZodError)
          ELSE IF ~token THEN CreateEntry("CreateContactFromChatTool", in)
          ELSE pc' = "search" /\ result' = result
  /\ UNCHANGED <<reqs, found>>
  /\ UNCHANGED restVars

\* GetContactActivitySummaryTool.execute lines 164-192, up to the first fetch
CallGetContactActivitySummaryTool ==
  /\ pc = "idle"
  /\ \E in \in SummaryToolInputs :
       /\ op' = "GetContactActivitySummaryTool"
       /\ input' = in
       /\ IF ~ParsesOptionalEmail(in) THEN Throws(ZodError) /\ UNCHANGED sumVars
          ELSE IF ~Truthy(in.contactId) /\ Truthy(in.email)
          THEN /\ IF ~token
                  THEN Return("GetContactActivitySummaryTool",
                              Fail(<<"Failed to search for contact: ">> \o MissingToken))
                  ELSE pc' = "search" /\ result' = result
               /\ UNCHANGED sumVars
          ELSE IF ~Truthy(in.contactId)
          THEN /\ Return("GetContactActivitySummaryTool",
                         Fail(<<"Either contactId or email must be provided">>))
               /\ UNCHANGED sumVars
          ELSE SummaryEntry("GetContactActivitySummaryTool", in.contactId)
  /\ budget' = IF budget < MaxSmall THEN budget ELSE MaxSmall
  /\ UNCHANGED <<earlier, dealServed, searchServed, contactServed, token, remote, outages, reqs, found>>

\* searchContactByEmail lines 570-622, and what the calling tool does with the result
FetchSearch ==
  /\ pc = "search"
  /\ reqs' = Append(reqs, ReqBody("POST", <<"/crm/v3/objects/contacts/search">>,
                                   SearchBody(input.email)))
  /\ \E res \in SearchResponses : \E r \in {SearchResult(res)} :
       /\ searchServed' = res
       /\ IF op = "searchContactByEmail"
          THEN Return(op, r) /\ found' = found /\ UNCHANGED sumVars
          ELSE IF op = "CreateContactFromChatTool"
          THEN /\ found' = r
               /\ IF r.ok /\ Truthy(r.contactId)
                  THEN pc' = "done" /\ result' = AlreadyExists(input, r)
                  ELSE CreateEntry(op, input)
               /\ UNCHANGED sumVars
          ELSE /\ found' = r
               /\ IF ~r.ok
                  THEN /\ Return(op, Fail(<<"Failed to search for contact: ">> \o r.error))
                       /\ UNCHANGED sumVars
                  ELSE IF ~Truthy(r.contactId)
                  THEN /\ Return(op, Fail(<<"No contact found with email ", input.email>>))
                       /\ UNCHANGED sumVars
                  ELSE SummaryEntry(op, r.contactId)
  /\ UNCHANGED <<earlier, dealServed, contactServed, token, remote, budget, outages, op, input>>

\* createContactFromChat.tool.ts execute, up to the search POST
CallCreateContactFromChatFileTool ==
  /\ pc = "idle"
  /\ \E in \in ContactInputs :
       /\ op' = "createContactFromChat.tool"
       /\ input' = in
       /\ IF ~ParsesChat(in) THEN Throws(ZodError)
          ELSE IF ~token THEN Return("createContactFromChat.tool", Fail(MissingToken))
          ELSE pc' = "chatSearch" /\ result' = result
  /\ UNCHANGED <<reqs, found>>
  /\ UNCHANGED restVars

\* createContactFromChat.tool.ts searchContactByEmail and execute lines 76-91
FetchChatSearch ==
  /\ pc = "chatSearch"
  /\ reqs' = Append(reqs, ReqBody("POST", <<"/crm/v3/objects/contacts/search">>,
                                   SearchBody(input.email)))
  /\ \E res \in SearchResponses : \E existingContact \in {ChatSearchResult(res)} :
       /\ found' = existingContact
       /\ searchServed' = res
       /\ IF existingContact.ok /\ Truthy(existingContact.contactId)
          THEN pc' = "done" /\ result' = AlreadyExists(input, existingContact)
          ELSE pc' = "chatCreate" /\ result' = result
  /\ UNCHANGED <<op, input>>
  /\ UNCHANGED <<earlier, dealServed, contactServed, token, remote, budget, outages, contactId, contactData,
                 ki, ids, di, summaries, allItems, served, detServed>>

\* createContactFromChat.tool.ts createContact and execute lines 93-104
FetchChatCreate ==
  /\ pc = "chatCreate"
  /\ reqs' = Append(reqs, ReqBody("POST", <<"/crm/v3/objects/contacts">>, ChatProperties(input)))
  /\ \E res \in WriteResponses : Return(op, ChatCreateResult(res))
  /\ UNCHANGED <<op, input, found>>
  /\ UNCHANGED restVars

----------------------------------------------------------------------------
\* A fetch that is never answered.  No fetch in the sources carries a signal or
\* a timeout, so the await never resumes and the invocation stays where it is.

\* the request the invocation is about to issue
PendingRequest ==
  CASE pc = "contact" ->
         Req("GET", <<"/crm/v3/objects/contacts/", contactId, "?properties=email,firstname,lastname">>)
    [] pc = "assoc" ->
         Req("GET", <<"/crm/v4/objects/contacts/", contactId, "/associations/", engagementTypes[ki]>>)
    [] pc = "detail" ->
         Req("GET", <<"/crm/v3/objects/", engagementTypes[ki], "/", recentIds(ids)[di], "?properties=",
                      getPropertiesForType(engagementTypes[ki])>>)
    [] pc \in {"create", "toolCreate"} ->
         ReqBody("POST", <<"/crm/v3/objects/contacts">>, Properties(input))
    [] pc = "chatCreate" ->
         ReqBody("POST", <<"/crm/v3/objects/contacts">>, ChatProperties(input))
    [] pc \in {"update", "toolUpdate"} ->
         ReqBody("PATCH", <<"/crm/v3/objects/contacts/", input.contactId>>, Properties(input))
    [] pc \in {"dealPatch", "toolDealPatch"} ->
         ReqBody("PATCH", <<"/crm/v3/objects/deals/", input.dealId>>, [dealstage |-> input.dealstage])
    [] pc \in {"dealGet", "toolDealGet"} ->
         Req("GET", <<"/crm/v3/objects/deals/", input.dealId,
                      "?properties=dealname,dealstage,amount,closedate,pipeline">>)
    [] pc = "pipelines" -> Req("GET", <<"/crm/v3/pipelines/deals">>)
    [] pc \in {"search", "chatSearch"} ->
         ReqBody("POST", <<"/crm/v3/objects/contacts/search">>, SearchBody(input.email))

RemoteNeverResponds ==
  /\ pc \notin {"idle", "done", "hung"}
  /\ reqs' = Append(reqs, PendingRequest)
  /\ pc' = "hung"
  /\ UNCHANGED <<op, input, result, found>>
  /\ UNCHANGED restVars

----------------------------------------------------------------------------

\* the steps in which a call or an answered fetch runs to the next fetch or the return
Completes ==
  \/ CallGetContactActivitySummary
  \/ CallGetContactActivitySummaryTool
  \/ FetchContact
  \/ FetchAssociations
  \/ FetchDetail
  \/ CallSearchContactByEmail
  \/ FetchSearch
  \/ CallCreateContact
  \/ CallCreateContactTool
  \/ CallCreateContactFileTool
  \/ CallCreateContactFromChatTool
  \/ CallCreateContactFromChatFileTool
  \/ FetchCreate
  \/ FetchToolCreate
  \/ FetchChatSearch
  \/ FetchChatCreate
  \/ CallUpdateContact
  \/ CallUpdateContactTool
  \/ CallUpdateContactFileTool
  \/ FetchUpdate
  \/ FetchToolUpdate
  \/ CallUpdateDealStage
  \/ CallUpdateDealStageTool
  \/ CallUpdateDealStageFileTool
  \/ CallGetDealById
  \/ CallGetDealPipelines
  \/ FetchDealGet
  \/ FetchDealPatch
  \/ FetchToolDealGet
  \/ FetchToolDealPatch
  \/ FetchPipelines

Next == Completes \/ RemoteNeverResponds

Spec == Init /\ [][Next]_vars

\* the runtime resumes an invocation whose fetch was answered
LiveSpec == Init /\ [][Next]_vars /\ WF_vars(Completes)

\* two calls of getContactActivitySummary, one after the other
ReplayNext ==
  \/ CallGetContactActivitySummary
  \/ FetchContact
  \/ FetchAssociations
  \/ FetchDetail
  \/ CallAgain

ReplaySpec == Init /\ [][ReplayNext]_vars

----------------------------------------------------------------------------
\* Lines 505-543 on their own: the loop over engagementTypes has finished with
\* any merged list of up to MaxItems fetched items, in processing order

\* fetched items in the merged list
MaxItems == 3

KindIndex(k) == CHOOSE i \in DOMAIN engagementTypes : engagementTypes[i] = k

StampValues == {Absent, "garbage", "2024-01-01T09:00:00Z", "2024-06-01T09:00:00Z"}

\* allItems after the loop: kinds in processing order, any stamps
MergedLists ==
  UNION { {l \in [1..n -> [type : KindSet, createdAt : StampValues]] :
             \A i \in 1..(n - 1) : KindIndex(l[i].type) <= KindIndex(l[i + 1].type)} :
          n \in 0..MaxItems }

\* summaries after the loop that pushed the items of l
SummariesOf(l) ==
  [k \in KindSet |->
     LET mine == SelectSeq(l, LAMBDA x : x.type = k)
     IN [type |-> k, count |-> Len(mine),
         items |-> [i \in DOMAIN mine |-> [id |-> EngIdNames[i], createdAt |-> mine[i].createdAt]]]]

SortInit ==
  /\ token = TRUE
  /\ remote = [budget |-> 0, minLen |-> 1, contact |-> NamedContact, stamps |-> StampValues]
  /\ budget = 0
  /\ outages = 0
  /\ op = "getContactActivitySummary"
  /\ input = [contactId |-> "c1"]
  /\ pc = "sort"
  /\ reqs = <<>>
  /\ result = NoResult
  /\ contactId = "c1"
  /\ contactData = NamedContact
  /\ ki = Len(engagementTypes)
  /\ ids = <<>>
  /\ di = 0
  /\ allItems \in MergedLists
  /\ summaries = SummariesOf(allItems)
  /\ served = [k \in KindSet |-> [st |-> "ok", n |-> summaries[k].count]]
  /\ detServed = [k \in KindSet |-> [i \in DOMAIN summaries[k].items |-> summaries[k].items[i].createdAt]]
  /\ found = NoResult
  /\ contactServed = Resp(200, NamedContact)
  /\ searchServed = NoResult
  /\ dealServed = NoResult
  /\ earlier = [kind |-> "unsorted", unsorted |-> <<>>, sorted |-> <<>>]

\* lines 505-543: sort, total, marker, return; the list as it was is kept in earlier
SortStep ==
  /\ pc = "sort"
  /\ \E sorted \in SortOutcomes(allItems) :
       /\ allItems' = sorted
       /\ Return(op, SummaryResult(contactData, summaries, sorted))
  /\ earlier' = [earlier EXCEPT !.unsorted = allItems]
  /\ UNCHANGED <<token, remote, budget, outages, op, input, reqs, contactId, contactData, ki, ids,
                 di, summaries, served, detServed, found, contactServed, searchServed,
                 dealServed>>

SortSpec == SortInit /\ [][SortStep]_vars

----------------------------------------------------------------------------
\* generateActivitySummaryText on its own: GetContactActivitySummaryTool.execute
\* from the return of getContactActivitySummary (held in found) on

\* the largest association total of a kind
MaxCount == 7

\* a text of n characters (n up to 200), the i-th being the last digit of i
Ruler ==
  LET ten == "1234567890"
      fifty == ten \o ten \o ten \o ten \o ten
  IN fifty \o fifty \o fifty \o fifty

TextOf(n) == SubSeq(Ruler, 1, n)

NoteBodies ==
  {"", TextOf(PreviewLen - 1), TextOf(PreviewLen), TextOf(PreviewLen + 1), TextOf(PreviewLen + 50)}

\* association total and number of fetched items of a kind
SectionShapes ==
  { [count |-> 0, n |-> 0], [count |-> 2, n |-> 0], [count |-> 1, n |-> 1],
    [count |-> MaxCount, n |-> SampleCap] }

\* the record served for item i of kind k: without properties when bare; the
\* odd notes carry body b, the even ones a body of exactly PreviewLen characters
ServedRecord(k, i, bare, b) ==
  IF bare THEN Obj([id |-> EngIdNames[i]])
  ELSE Obj([id |-> EngIdNames[i],
            properties |-> [n \in {"hs_note_body"} |-> IF i % 2 = 1 THEN b ELSE TextOf(PreviewLen)]
                             @@ DetailProps(k, "2024-01-01T09:00:00Z")])

SummariesShaped(shape, bare, b) ==
  [k \in KindSet |->
     [type |-> k, count |-> shape[k].count,
      items |-> [i \in 1..shape[k].n |-> extractEngagementInfo(k, ServedRecord(k, i, bare, b))]]]

TextInit ==
  /\ token = TRUE
  /\ remote = [budget |-> 0, minLen |-> 1, contact |-> NamedContact, stamps |-> {"2024-01-01T09:00:00Z"}]
  /\ budget = 0
  /\ outages = 0
  /\ op = "GetContactActivitySummaryTool"
  /\ input = [contactId |-> "c1", email |-> Absent]
  /\ pc = "text"
  /\ reqs = <<>>
  /\ result = NoResult
  /\ contactId = "c1"
  /\ \E shape \in [KindSet -> SectionShapes], bare \in BOOLEAN, b \in NoteBodies :
       /\ contactData = (IF bare THEN BareContact ELSE NamedContact)
       /\ summaries = SummariesShaped(shape, bare, b)
  /\ found = SummaryResult(contactData, summaries, <<>>)
  /\ ki = 0
  /\ ids = <<>>
  /\ di = 0
  /\ allItems = <<>>
  /\ served = [k \in KindSet |-> [st |-> "ok", n |-> summaries[k].count]]
  /\ detServed = [k \in KindSet |-> [i \in DOMAIN summaries[k].items |-> summaries[k].items[i].createdAt]]
  /\ contactServed = Resp(200, contactData)
  /\ searchServed = NoResult
  /\ dealServed = NoResult
  /\ earlier = NoResult

\* GetContactActivitySummaryTool.execute lines 192-200
TextStep ==
  /\ pc = "text"
  /\ Return(op, found)
  /\ UNCHANGED <<token, remote, budget, outages, op, input, reqs, contactId, contactData, ki, ids,
                 di, summaries, allItems, served, detServed, found, contactServed, searchServed,
                 dealServed, earlier>>

TextSpec == TextInit /\ [][TextStep]_vars

----------------------------------------------------------------------------
\* Two invocations of createContactFromChat with the same email, interleaved at
\* their awaits. op, pc, found and result are kept per invocation; remote counts
\* the contacts that carry the email, before the invocations and now.

Clients == {"first", "second"}

ChatInput ==
  [email |-> "jane@x.io", firstname |-> "Jane", lastname |-> Absent, phone |-> Absent,
   company |-> Absent]

\* the search index answers from the contacts the remote holds, or fails
RaceSearchAnswers ==
  { Throw, Resp(400, Obj([message |-> "bad filter"])) }
  \cup (IF remote.contacts > 0
        THEN {Resp(200, Obj([results |-> <<[id |-> "c1", properties |-> [email |-> "jane@x.io"]]>>]))}
        ELSE {Resp(200, Obj([results |-> <<>>]))})

\* the create is refused or lost, or it adds a contact
RaceCreateAnswers ==
  { [res |-> Throw, added |-> 0],
    [res |-> Resp(409, Obj([message |-> "Contact already exists"])), added |-> 0],
    [res |-> Resp(200, Obj([id |-> "c9", properties |-> [hs_object_id |-> "c9"]])), added |-> 1] }

RaceInit ==
  /\ token = TRUE
  /\ \E n \in 0..1 : remote = [before |-> n, contacts |-> n]
  /\ budget = 0
  /\ outages = 0
  /\ op = [c \in Clients |-> "none"]
  /\ input = ChatInput
  /\ pc = [c \in Clients |-> "idle"]
  /\ reqs = <<>>
  /\ result = [c \in Clients |-> NoResult]
  /\ found = [c \in Clients |-> NoResult]
  /\ contactId = ""
  /\ contactData = JsonNull
  /\ ki = 0
  /\ ids = <<>>
  /\ di = 0
  /\ summaries = EmptySummaries
  /\ allItems = <<>>
  /\ served = [k \in KindSet |-> [st |-> "none", n |-> 0]]
  /\ detServed = [k \in KindSet |-> <<>>]
  /\ contactServed = NoResult
  /\ searchServed = [c \in Clients |-> NoResult]
  /\ dealServed = NoResult
  /\ earlier = NoResult

raceRest == <<token, budget, outages, input, contactId, contactData, ki, ids, di, summaries,
              allItems, served, detServed, contactServed, dealServed, earlier>>

\* execute of either tool, up to the search POST
RaceCall(c) ==
  /\ pc[c] = "idle"
  /\ \E o \in {"CreateContactFromChatTool", "createContactFromChat.tool"} :
       op' = [op EXCEPT ![c] = o]
  /\ pc' = [pc EXCEPT ![c] = "search"]
  /\ UNCHANGED <<remote, reqs, result, found, searchServed>>
  /\ UNCHANGED raceRest

\* searchContactByEmail and the test on existingContact
RaceSearch(c) ==
  /\ pc[c] = "search"
  /\ reqs' = Append(reqs, [by |-> c] @@ ReqBody("POST", <<"/crm/v3/objects/contacts/search">>,
                                                 SearchBody(input.email)))
  /\ \E res \in RaceSearchAnswers :
     \E existingContact \in {IF op[c] = "CreateContactFromChatTool" THEN SearchResult(res)
                              ELSE ChatSearchResult(res)} :
       /\ found' = [found EXCEPT ![c] = existingContact]
       /\ searchServed' = [searchServed EXCEPT ![c] = res]
       /\ IF existingContact.ok /\ Truthy(existingContact.contactId)
          THEN /\ pc' = [pc EXCEPT ![c] = "done"]
               /\ result' = [result EXCEPT ![c] = AlreadyExists(input, existingContact)]
          ELSE /\ pc' = [pc EXCEPT ![c] = "create"]
               /\ result' = result
  /\ UNCHANGED <<remote, op>>
  /\ UNCHANGED raceRest

\* createContact and what execute returns
RaceCreate(c) ==
  /\ pc[c] = "create"
  /\ reqs' = Append(reqs, [by |-> c] @@ ReqBody("POST", <<"/crm/v3/objects/contacts">>,
                                                 IF op[c] = "CreateContactFromChatTool"
                                                 THEN Properties(input) ELSE ChatProperties(input)))
  /\ \E a \in RaceCreateAnswers :
       /\ remote' = [remote EXCEPT !.contacts = @ + a.added]
       /\ result' = [result EXCEPT ![c] =
                        Deliver(op[c], IF op[c] = "CreateContactFromChatTool"
                                       THEN WriteResult(a.res) ELSE ChatCreateResult(a.res))]
  /\ pc' = [pc EXCEPT ![c] = "done"]
  /\ UNCHANGED <<op, found, searchServed>>
  /\ UNCHANGED raceRest

RaceNext == \E c \in Clients : RaceCall(c) \/ RaceSearch(c) \/ RaceCreate(c)

RaceSpec == RaceInit /\ [][RaceNext]_vars

\* every request issued is the pending one of the fetch point it was issued from
RequestsArePending ==
  [][(pc \notin {"idle", "done", "hung"}) => reqs' = Append(reqs, PendingRequest)]_vars

----------------------------------------------------------------------------
\* Properties

SummaryOps == {"getContactActivitySummary", "GetContactActivitySummaryTool"}

\* a summary entry point handed an envelope to its caller
SummaryReturned == pc = "done" /\ op \in SummaryOps /\ result.kind = "returned"

SummaryOk == SummaryReturned /\ result.ok

\* the contact GET answered with a success status and a contact record
ContactResolved == contactData.json = "object"

IsHit(x) == x.createdAt # Miss

\* the records the remote served for kind k: identifier and creation stamp of each
\* detail request that was answered with a record, in request order
ItemsAsServed(k) ==
  SelectSeq([i \in DOMAIN detServed[k] |-> [id |-> EngIdNames[i], createdAt |-> detServed[k][i]]],
            IsHit)

IdAndStamp(items) == [i \in DOMAIN items |-> [id |-> items[i].id, createdAt |-> items[i].createdAt]]

Parseable(a) == Truthy(a.createdAt) /\ ~GetTime(a.createdAt).nan

\* item i of allItems has the latest parseable createdAt, if any item has one
Latest(i) ==
  \A j \in DOMAIN allItems :
    Parseable(allItems[j]) =>
      /\ Parseable(allItems[i])
      /\ GetTime(allItems[i].createdAt).v >= GetTime(allItems[j].createdAt).v

MarkerFor(a) ==
  <<"Most recent: ", a.type, " on ", IF a.createdAt = Absent THEN "unknown date" ELSE a.createdAt>>

\* C1: whenever an entry point returns with no token configured, the envelope has
\* ok=false, its error contains "Missing HUBSPOT_PRIVATE_APP_TOKEN", and no HTTP
\* request was issued.
C1_MissingTokenReported ==
  (pc = "done" /\ ~token /\ result.kind = "returned") =>
    /\ ~result.ok
    /\ Contains(result.error, "Missing HUBSPOT_PRIVATE_APP_TOKEN")
    /\ reqs = <<>>

\* C2: in a successful summary the count of every kind is the number of
\* associations the remote association index returned for that kind, whatever
\* the number of detail-fetched items.
C2_CountIsAssociationTotal ==
  SummaryOk => \A k \in KindSet : result.summary[k].count = served[k].n

C2_Witness ==
  /\ SummaryOk
  /\ \E k \in KindSet :
       /\ served[k].n = MaxDeep
       /\ result.summary[k].count = MaxDeep
       /\ Len(result.summary[k].items) = 5

\* C3: when the association fetch of some kind failed and the contact resolved,
\* the summary is ok; every failed kind has count 0 and no items; every other
\* kind has the count and the items the remote served for it, which do not
\* depend on the failed kind.
C3_FailedKindIsIsolated ==
  (SummaryReturned /\ ContactResolved /\ \E f \in KindSet : served[f].st = "fail") =>
    /\ result.ok
    /\ \A k \in KindSet :
         IF served[k].st = "fail"
         THEN result.summary[k].count = 0 /\ result.summary[k].items = <<>>
         ELSE /\ result.summary[k].count = served[k].n
              /\ Len(detServed[k]) = (IF served[k].n < 5 THEN served[k].n ELSE 5)
              /\ IdAndStamp(result.summary[k].items) = ItemsAsServed(k)

C3_Witness ==
  /\ SummaryOk
  /\ served["meetings"].st = "fail"
  /\ \E k \in KindSet : result.summary[k].count > 0 /\ Len(result.summary[k].items) > 0

\* C4: a summary invocation returns ok=true exactly when the contact resolved;
\* no failure of an association or detail fetch makes it ok=false.
C4_OnlyContactIsFatal ==
  SummaryReturned => (result.ok <=> ContactResolved)

C4_Witness ==
  /\ SummaryOk
  /\ \E k \in KindSet : served[k].st = "fail"
  /\ \E k \in KindSet : \E i \in DOMAIN detServed[k] : detServed[k][i] = Miss

\* C5: in a successful summary totalEngagements is the sum of the five counts.
C5_TotalIsSumOfCounts ==
  SummaryOk =>
    result.summary.totalEngagements
      = SumSeq([i \in DOMAIN engagementTypes |-> result.summary[engagementTypes[i]].count])

C5_Witness ==
  /\ SummaryOk
  /\ result.summary.totalEngagements
       > SumSeq([i \in DOMAIN engagementTypes |-> Len(result.summary[engagementTypes[i]].items)])
  /\ \E k \in KindSet : \E m \in KindSet :
       k # m /\ result.summary[k].count > 0 /\ result.summary[m].count > 0

\* C6: in a successful summary every kind has at most count items and at most 5.
C6_ItemsWithinCountAndCap ==
  SummaryOk =>
    \A k \in KindSet :
      /\ Len(result.summary[k].items) <= result.summary[k].count
      /\ Len(result.summary[k].items) <= 5

C6_Witness ==
  /\ SummaryOk
  /\ \E k \in KindSet : result.summary[k].count > 5 /\ Len(result.summary[k].items) = 5
  /\ \A k \in KindSet : \A i \in DOMAIN detServed[k] : detServed[k][i] # Miss

\* C7: the most-recent marker of a successful summary is the sentinel exactly
\* when no item was fetched, and otherwise names a fetched item with the latest
\* createdAt.
C7_MarkerNamesLatest ==
  SummaryOk =>
    /\ (result.summary.recentActivity = NoRecentActivity) <=> (allItems = <<>>)
    /\ allItems # <<>> =>
         \E i \in DOMAIN allItems :
           Latest(i) /\ result.summary.recentActivity = MarkerFor(allItems[i])

\* C8 as stated: when items were fetched but none has a parseable createdAt, the
\* most-recent marker is the sentinel.
C8_SentinelWhenNoneParseable ==
  (SummaryOk /\ allItems # <<>> /\ \A i \in DOMAIN allItems : ~Parseable(allItems[i])) =>
    result.summary.recentActivity = NoRecentActivity

\* index in engagementTypes of the first kind for which a record was served
FirstServedKind ==
  CHOOSE i \in DOMAIN engagementTypes :
    /\ ItemsAsServed(engagementTypes[i]) # <<>>
    /\ \A j \in 1..(i - 1) : ItemsAsServed(engagementTypes[j]) = <<>>

\* C8: when items were fetched but none has a parseable createdAt, the
\* most-recent marker names the first fetched item in processing order, with
\* its createdAt text or "unknown date" when it has none.
C8_MarkerNamesFirstFetched ==
  (SummaryOk /\ allItems # <<>> /\ \A i \in DOMAIN allItems : ~Parseable(allItems[i])) =>
    result.summary.recentActivity
      = MarkerFor([type |-> engagementTypes[FirstServedKind],
                   createdAt |-> ItemsAsServed(engagementTypes[FirstServedKind])[1].createdAt])

C8_Witness ==
  /\ SummaryOk
  /\ Len(allItems) = 2
  /\ allItems[1].createdAt = "garbage"
  /\ allItems[2].createdAt = Absent
  /\ allItems[1].type # allItems[2].type
  /\ result.summary.recentActivity # NoRecentActivity

\* C9: when the contact resolved and the association index returned an empty
\* list for each of the five kinds, the summary is ok with totalEngagements 0,
\* no items in any kind, and the sentinel as most-recent marker.
C9_EmptyContact ==
  (SummaryReturned /\ ContactResolved /\ \A k \in KindSet : served[k] = [st |-> "ok", n |-> 0]) =>
    /\ result.ok
    /\ result.summary.totalEngagements = 0
    /\ \A k \in KindSet : result.summary[k].items = <<>> /\ result.summary[k].count = 0
    /\ result.summary.recentActivity = NoRecentActivity

C9_Witness ==
  /\ SummaryOk
  /\ \A k \in KindSet : served[k] = [st |-> "ok", n |-> 0]
  /\ Len(reqs) = 1 + Len(engagementTypes)

\* C10: every tool invocation ends by returning an envelope that carries ok;
\* none ends by throwing.
C10_ToolsNeverThrow ==
  (pc = "done" /\ op \in Tools) => (result.kind = "returned" /\ result.ok \in BOOLEAN)

\* C11: every summary invocation eventually returns a result, also when a
\* remote call is never answered.
C11_SummaryEventuallyReturns ==
  (op \in SummaryOps) ~> (pc = "done")

\* C12: a second getContactActivitySummary invocation with the same contactId,
\* the remote answering what it answered before, returns the same result as the
\* first, whatever the first one left behind.
C12_SecondResultIsTheSame ==
  (pc = "done" /\ earlier # NoResult) => result = earlier.result

C12_Witness ==
  /\ pc = "done"
  /\ earlier # NoResult
  /\ result.ok
  /\ result = earlier.result
  /\ result.summary.totalEngagements > 0
  /\ \E k \in KindSet : Len(result.summary[k].items) > 0
  /\ \E k \in KindSet : served[k].st = "fail"

ChatOps == {"CreateContactFromChatTool", "createContactFromChat.tool"}

\* the positions in reqs of the requests with this method and path
Issued(method, url) ==
  {i \in DOMAIN reqs : reqs[i].method = method /\ reqs[i].url = url}

\* the search was answered with at least one contact that carries an identifier
YieldedId(res) ==
  /\ res # NoResult
  /\ res.net = "up"
  /\ ResOk(res)
  /\ res.body.json = "object"
  /\ "results" \in DOMAIN res.body.fields
  /\ Len(res.body.fields.results) > 0
  /\ Truthy(Get(res.body.fields.results[1], "id"))

\* C13: with a token, createContactFromChat issues the create POST only after
\* its search, and only when the search yielded no contact identifier; once it
\* has returned, the create was issued exactly when the search yielded none; a
\* search that yielded a contact gives ok=true, alreadyExists=true and that
\* contact's id.
C13_CreateIffSearchFoundNone ==
  (op \in ChatOps /\ token) =>
    /\ \A i \in Issued("POST", <<"/crm/v3/objects/contacts">>) :
         /\ \E j \in Issued("POST", <<"/crm/v3/objects/contacts/search">>) : j < i
         /\ ~YieldedId(searchServed)
    /\ Cardinality(Issued("POST", <<"/crm/v3/objects/contacts">>)) <= 1
    /\ (pc = "done" /\ result.kind = "returned") =>
         /\ (Issued("POST", <<"/crm/v3/objects/contacts">>) # {}) <=> ~YieldedId(searchServed)
         /\ YieldedId(searchServed) =>
              /\ result.ok
              /\ result.alreadyExists
              /\ result.contactId = searchServed.body.fields.results[1].id

C13_Witness ==
  /\ op \in ChatOps
  /\ pc = "done"
  /\ YieldedId(searchServed)
  /\ result.alreadyExists
  /\ Len(reqs) = 1

\* the search was not carried out, or its answer was a transport error, a
\* non-success status or a body that is no JSON object
SearchFailed(res) ==
  \/ res = NoResult
  \/ res.net = "throw"
  \/ ~ResOk(res)
  \/ res.body.json # "object"

SearchPath == <<"/crm/v3/objects/contacts/search">>

ContactRequest(id) ==
  Req("GET", <<"/crm/v3/objects/contacts/", id, "?properties=email,firstname,lastname">>)

\* C14: the summary tool uses a non-empty contactId directly, without a search;
\* otherwise it searches a given email and continues with the contact found; a
\* failed search gives "Failed to search for contact", no match gives "No
\* contact found with email", neither field gives "Either contactId or email
\* must be provided", and in these three cases nothing but the search is requested.
C14_ToolResolvesContact ==
  (op = "GetContactActivitySummaryTool" /\ result.kind # "thrown") =>
    IF Truthy(input.contactId)
    THEN /\ Issued("POST", SearchPath) = {}
         /\ reqs # <<>> => reqs[1] = ContactRequest(input.contactId)
    ELSE IF ~Truthy(input.email)
    THEN /\ reqs = <<>>
         /\ pc = "done"
         /\ result = Fail(<<"Either contactId or email must be provided">>)
    ELSE /\ reqs # <<>> => reqs[1] = ReqBody("POST", SearchPath, SearchBody(input.email))
         /\ Len(reqs) > 1 =>
              /\ YieldedId(searchServed)
              /\ reqs[2] = ContactRequest(searchServed.body.fields.results[1].id)
         /\ (pc = "done" /\ SearchFailed(searchServed)) =>
              /\ ~result.ok
              /\ result.error[1] = "Failed to search for contact: "
              /\ Len(reqs) <= 1
         /\ (pc = "done" /\ ~SearchFailed(searchServed) /\ ~YieldedId(searchServed)) =>
              /\ result = Fail(<<"No contact found with email ", input.email>>)
              /\ Len(reqs) = 1

C14_Witness ==
  /\ op = "GetContactActivitySummaryTool"
  /\ pc = "done"
  /\ ~Truthy(input.contactId)
  /\ YieldedId(searchServed)
  /\ result.kind = "returned"
  /\ result.ok
  /\ Len(reqs) > 7

\* the positions in reqs of the association request of kind k
AssocRequests(k) ==
  {i \in DOMAIN reqs : Len(reqs[i].url) = 4 /\ reqs[i].url[3] = "/associations/" /\ reqs[i].url[4] = k}

\* the positions in reqs of the detail requests of kind k
DetailRequests(k) ==
  {i \in DOMAIN reqs : Len(reqs[i].url) = 6 /\ reqs[i].url[1] = "/crm/v3/objects/" /\ reqs[i].url[2] = k}

ContactRequests ==
  {i \in DOMAIN reqs : Len(reqs[i].url) = 3 /\ reqs[i].url[1] = "/crm/v3/objects/contacts/"}

\* C15: a summary invocation issues at most one contact request, at most one
\* association request per kind (exactly one once it returned with the contact
\* resolved), at most 5 detail requests per kind, at most 31 requests after the
\* tool's search, and no request twice.
C15_RequestsAreBounded ==
  (op \in SummaryOps) =>
    /\ Cardinality(ContactRequests) <= 1
    /\ \A k \in KindSet :
         /\ Cardinality(AssocRequests(k)) <= 1
         /\ Cardinality(DetailRequests(k)) <= 5
         /\ (SummaryReturned /\ ContactResolved) => Cardinality(AssocRequests(k)) = 1
    /\ Len(reqs) - Cardinality(Issued("POST", SearchPath)) <= 31
    /\ Cardinality(Issued("POST", SearchPath)) <= 1
    /\ \A i, j \in DOMAIN reqs : reqs[i] = reqs[j] => i = j
    /\ \A i \in DOMAIN reqs :
         i \in ContactRequests \cup Issued("POST", SearchPath)
              \cup UNION {AssocRequests(k) \cup DetailRequests(k) : k \in KindSet}

C15_Witness ==
  /\ SummaryOk
  /\ \E k \in KindSet :
       /\ served[k].n > 5
       /\ Cardinality(DetailRequests(k)) = 5
       /\ \E i \in DOMAIN detServed[k] : detServed[k][i] = Miss
  /\ \E k \in KindSet : served[k].st = "fail"

\* item i of the sorted list is dated no later than item j is, an undated item
\* counting as older than every dated one
NotAfter(i, j) ==
  Parseable(allItems[i]) =>
    /\ Parseable(allItems[j])
    /\ GetTime(allItems[j].createdAt).v >= GetTime(allItems[i].createdAt).v

\* C16: after the sort the merged list is in descending order of createdAt, and
\* every item with an absent or unparseable createdAt stands after every item
\* with a parseable one.
C16_SortedUndatedLast ==
  (pc = "done" /\ result.kind = "returned" /\ result.ok) =>
    \A i, j \in DOMAIN allItems : i < j => NotAfter(j, i)

\* the dated items of the list as it was before the sort that carry the latest timestamp
LatestBefore ==
  {i \in DOMAIN earlier.unsorted :
     /\ Parseable(earlier.unsorted[i])
     /\ \A j \in DOMAIN earlier.unsorted :
          Parseable(earlier.unsorted[j]) =>
            GetTime(earlier.unsorted[i].createdAt).v >= GetTime(earlier.unsorted[j].createdAt).v}

\* C17: after the sort, items with equal timestamps stand in processing order
\* of their kinds, and when several items tie for the latest timestamp the
\* most-recent marker names the first of them in processing order.
C17_StableAndMarkerIsFirstOfLatest ==
  (pc = "done" /\ result.kind = "returned" /\ result.ok) =>
    /\ \A i, j \in DOMAIN allItems :
         (i < j /\ Parseable(allItems[i]) /\ Parseable(allItems[j])
            /\ GetTime(allItems[i].createdAt).v = GetTime(allItems[j].createdAt).v)
           => KindIndex(allItems[i].type) <= KindIndex(allItems[j].type)
    /\ Cardinality(LatestBefore) > 1 =>
         result.summary.recentActivity
           = MarkerFor(earlier.unsorted[CHOOSE i \in LatestBefore : \A j \in LatestBefore : i <= j])

\* the served value of each property is its own name: the normalized record of
\* kind k carries these values in these fields
NormalizedFields(k) ==
  CASE k = "calls" -> [subject |-> "hs_call_title", body |-> "hs_call_body",
                       status |-> "hs_call_status", direction |-> "hs_call_direction"]
    [] k = "emails" -> [subject |-> "hs_email_subject", body |-> "hs_email_text",
                        status |-> "hs_email_status", direction |-> "hs_email_direction"]
    [] k = "notes" -> [body |-> "hs_note_body"]
    [] k = "tasks" -> [subject |-> "hs_task_subject", body |-> "hs_task_body",
                       status |-> "hs_task_status"]
    [] k = "meetings" -> [subject |-> "hs_meeting_title", body |-> "hs_meeting_body",
                          status |-> "hs_meeting_outcome"]

\* the normalized records of the records served for kind k, in request order
RecordsAsServed(k) ==
  [i \in DOMAIN ItemsAsServed(k) |-> ItemsAsServed(k)[i] @@ NormalizedFields(k)]

\* C18: in a successful summary the items of every kind are the normalized
\* records of the sampled identifiers whose detail fetch succeeded, in list
\* order; every one of the first 5 identifiers was requested, in list order,
\* whatever missed before it; a miss leaves no item and count as it is; and
\* every kind had its association request.
C18_ItemsAreTheHitsInOrder ==
  SummaryOk =>
    \A k \in KindSet :
      /\ result.summary[k].items = RecordsAsServed(k)
      /\ Len(detServed[k]) = (IF served[k].n < 5 THEN served[k].n ELSE 5)
      /\ \E f \in [1..Len(detServed[k]) -> DetailRequests(k)] :
           \A i \in DOMAIN f :
             /\ reqs[f[i]].url[4] = EngIdNames[i]
             /\ \A j \in DOMAIN f : i < j => f[i] < f[j]
      /\ Cardinality(DetailRequests(k)) = Len(detServed[k])
      /\ result.summary[k].count = served[k].n
      /\ Cardinality(AssocRequests(k)) = 1

C18_Witness ==
  /\ SummaryOk
  /\ \E k \in KindSet :
       /\ \E i, j \in DOMAIN detServed[k] : i < j /\ detServed[k][i] = Miss /\ detServed[k][j] # Miss
       /\ Len(result.summary[k].items) = Len(detServed[k]) - 1
       /\ \E m \in KindSet :
            KindIndex(m) > KindIndex(k) /\ Len(result.summary[m].items) > 0

\* the contact GET was answered with a status outside 200..299
ContactRefused == contactServed \notin {NoResult, Throw} /\ ~ResOk(contactServed)

\* C19: in a summary invocation every association or detail request comes after
\* the contact request; when the contact request is answered with a non-success
\* status the invocation returns ok=false with the remote's message, or with
\* "Contact not found" when the remote gave none, and no association or detail
\* request is issued.
C19_ContactFirstAndRefusalIsFatal ==
  (op \in SummaryOps) =>
    /\ \A k \in KindSet : \A i \in AssocRequests(k) \cup DetailRequests(k) :
         \E j \in ContactRequests : j < i
    /\ ContactRefused =>
         /\ SummaryReturned
         /\ ~result.ok
         /\ result.error = (IF contactServed.body.json = "object"
                                /\ Get(contactServed.body.fields, "message") # Absent
                             THEN <<contactServed.body.fields.message>>
                             ELSE <<"Contact not found">>)
         /\ \A k \in KindSet : AssocRequests(k) \cup DetailRequests(k) = {}

DealTools == {"UpdateDealStageTool", "updateDealStage.tool"}

DealLookup(id) ==
  Req("GET", <<"/crm/v3/objects/deals/", id,
               "?properties=dealname,dealstage,amount,closedate,pipeline">>)

\* the positions in reqs of the PATCH requests
DealPatches == {i \in DOMAIN reqs : reqs[i].method = "PATCH"}

\* the deal GET was answered with a success status and a readable body
LookupSucceeded ==
  dealServed \notin {NoResult, Throw} /\ ResOk(dealServed) /\ dealServed.body.json # "malformed"

LookupFailed == dealServed # NoResult /\ ~LookupSucceeded

\* C20: an updateDealStage tool issues its PATCH only as the request after a GET
\* of the same deal that succeeded; when the GET fails the tool returns ok=false
\* with "Could not find deal with ID <id>: ..." and issues no PATCH; and when
\* the tool succeeds previousDeal is the body the remote served to that GET.
C20_PatchOnlyAfterLookup ==
  (op \in DealTools /\ result.kind # "thrown") =>
    /\ \A i \in DealPatches :
         /\ i = 2
         /\ reqs[1] = DealLookup(input.dealId)
         /\ reqs[i].url = <<"/crm/v3/objects/deals/", input.dealId>>
         /\ LookupSucceeded
    /\ LookupFailed =>
         /\ pc = "done"
         /\ ~result.ok
         /\ Len(result.error) > 3
         /\ SubSeq(result.error, 1, 3) = <<"Could not find deal with ID ", input.dealId, ": ">>
         /\ DealPatches = {}
    /\ (pc = "done" /\ result.ok) =>
         /\ DealPatches = {2}
         /\ LookupSucceeded
         /\ result.previousDeal = dealServed.body

C20_Witness ==
  /\ op \in DealTools
  /\ pc = "done"
  /\ result.ok
  /\ DealPatches = {2}
  /\ dealServed.body.json = "object"
  /\ result.previousDeal = dealServed.body

\* the invocation's input lacks an identifier or field its operation requires
RequiredMissing ==
  \/ op = "getContactActivitySummary" /\ ~Truthy(input.contactId)
  \/ /\ op \in {"updateContact", "UpdateContactTool", "updateContact.tool"}
     /\ (~Truthy(input.contactId) \/ \A n \in PropNames : ~Truthy(input[n]))
  \/ /\ op \in {"createContact", "CreateContactTool", "createContact.tool"}
     /\ \A n \in PropNames : ~Truthy(input[n])
  \/ /\ op \in {"updateDealStage"} \cup DealTools
     /\ (~Truthy(input.dealId) \/ ~Truthy(input.dealstage))

InputErrors ==
  {<<"Contact ID is required.">>, <<"No properties provided.">>,
   <<"No properties to update provided.">>, <<"Deal ID is required.">>,
   <<"Deal stage is required.">>}

\* C21: with the token configured, an invocation whose input lacks a required
\* identifier or field (contactId; dealId or dealstage; every property) has
\* returned ok=false with an input error and has issued no HTTP request.
C21_MissingInputReportedAtOnce ==
  (token /\ RequiredMissing /\ result.kind # "thrown") =>
    /\ pc = "done"
    /\ ~result.ok
    /\ result.error \in InputErrors
    /\ reqs = <<>>

\* the sections as stated: order, title and the most items a section lists
StatedSections ==
  << [kind |-> "calls", title |-> "Calls", most |-> 3],
     [kind |-> "emails", title |-> "Emails", most |-> 3],
     [kind |-> "meetings", title |-> "Meetings", most |-> 3],
     [kind |-> "tasks", title |-> "Tasks", most |-> 3],
     [kind |-> "notes", title |-> "Notes", most |-> 2] >>

IsSectionHead(l) == l[1] = "### "

\* the number of item lines that follow line p of text t without interruption
ItemRun(t, p) ==
  Cardinality({q \in (p + 1)..Len(t) : \A j \in (p + 1)..q : t[j][1] = "- "})

TextReturned ==
  pc = "done" /\ op = "GetContactActivitySummaryTool" /\ result.kind = "returned" /\ result.ok

\* C22: the summary text opens with the header, total and most-recent lines;
\* its section heads are those of the kinds with count > 0, in the order calls,
\* emails, meetings, tasks, notes; a section lists the first 3 items at most
\* (2 for notes); and a note line shows the body whole with no marker when it
\* has at most 100 characters, else its first 100 characters followed by "...".
C22_TextSectionsAndPreviews ==
  TextReturned =>
    LET t == result.summaryText
        sum == result.summary
        present == SelectSeq(StatedSections, LAMBDA c : sum[c.kind].count > 0)
        heads == SelectSeq(t, IsSectionHead)
    IN /\ Len(t) >= 5
       /\ t[1][1] = "## Activity Summary for "
       /\ t[3][1] = "**Total Engagements:** "
       /\ t[4] = <<"**">> \o sum.recentActivity \o <<"**">>
       /\ \A p \in 1..5 : ~IsSectionHead(t[p]) /\ t[p][1] # "- "
       /\ [i \in DOMAIN heads |-> heads[i][2]] = [i \in DOMAIN present |-> present[i].title]
       /\ \A i \in DOMAIN present :
            LET c == present[i]
                p == CHOOSE q \in DOMAIN t : IsSectionHead(t[q]) /\ t[q][2] = c.title
                items == sum[c.kind].items
                n == ItemRun(t, p)
            IN /\ n = (IF Len(items) < c.most THEN Len(items) ELSE c.most)
               /\ c.kind = "notes" =>
                    \A j \in 1..n :
                      LET body == items[j].body
                      IN Truthy(body) =>
                           t[p + j] = (IF Len(body) > 100
                                       THEN <<"- ", SubSeq(body, 1, 100), "...">>
                                       ELSE <<"- ", body, "">>)

C22_Witness ==
  /\ TextReturned
  /\ result.summary.calls.count = 0
  /\ Len(result.summary.emails.items) = 5
  /\ Len(result.summary.notes.items) = 5
  /\ Len(result.summary.notes.items[1].body) = 101
  /\ Len(result.summary.notes.items[2].body) = 100
  /\ \E p \in DOMAIN result.summaryText :
       /\ result.summaryText[p] = <<"### ", "Notes", " (", "7", " total)">>
       /\ ItemRun(result.summaryText, p) = 2
       /\ result.summaryText[p + 1][3] = "..."
       /\ result.summaryText[p + 2] = <<"- ", result.summary.notes.items[2].body, "">>
  /\ \E p \in DOMAIN result.summaryText :
       /\ IsSectionHead(result.summaryText[p])
       /\ result.summaryText[p][2] = "Emails"
       /\ ItemRun(result.summaryText, p) = 3

\* the positions in reqs of the contact-create requests
CreateRequests ==
  {i \in DOMAIN reqs : reqs[i].method = "POST" /\ reqs[i].url = <<"/crm/v3/objects/contacts">>}

\* the invocations whose create request failed
FailedCreates == {c \in Clients : pc[c] = "done" /\ ~result[c].ok}

\* C23: when no contact with the email existed before two interleaved
\* createContactFromChat invocations with that email, at most one of them
\* issues a create request. Stated for the runs in which every search was
\* answered with a success status, and not counting a create request that failed (after which a
\* second request creates no second contact).
C23_OneCreateForTwoInvocations ==
  (remote.before = 0
     /\ \A c \in Clients :
          searchServed[c] # Throw /\ (searchServed[c] # NoResult => ResOk(searchServed[c]))) =>
    Cardinality(CreateRequests) <= 1 + Cardinality(FailedCreates)

\* C24: a summary invocation, by contactId or by email, only reads: each of its
\* requests is a GET of the contact, of an association list or of an engagement
\* record, or the tool's search POST; it sends no body but the search filter and
\* never a PATCH, PUT or DELETE nor a POST that creates.
C24_SummaryOnlyReads ==
  (op \in SummaryOps) =>
    \A i \in DOMAIN reqs :
      LET r == reqs[i]
      IN \/ /\ r.method = "GET"
            /\ "body" \notin DOMAIN r
            /\ \/ Len(r.url) = 3 /\ r.url[1] = "/crm/v3/objects/contacts/"
               \/ Len(r.url) = 4 /\ r.url[3] = "/associations/" /\ r.url[4] \in KindSet
               \/ Len(r.url) = 6 /\ r.url[1] = "/crm/v3/objects/" /\ r.url[2] \in KindSet
         \/ /\ op = "GetContactActivitySummaryTool"
            /\ i = 1
            /\ r = ReqBody("POST", SearchPath, SearchBody(input.email))

C24_Witness ==
  /\ op = "GetContactActivitySummaryTool"
  /\ SummaryOk
  /\ Len(reqs) = 3 + Len(engagementTypes)
  /\ reqs[1].method = "POST"
  /\ \E k \in KindSet : DetailRequests(k) # {}
  /\ \E k \in KindSet : served[k].st = "fail"

DealStageOps == {"updateDealStage"} \cup DealTools

\* C25: an updateDealStage invocation writes at most once, with a PATCH
\* addressed to the deal of its input whose body holds the dealstage of the
\* input and no other property; its other requests are reads without a body,
\* and the notes of the input are in no request, given or not.
C25_OnlyDealStageIsWritten ==
  (op \in DealStageOps) =>
    /\ Cardinality(DealPatches) <= 1
    /\ \A i \in DOMAIN reqs :
         IF i \in DealPatches
         THEN /\ reqs[i].url = <<"/crm/v3/objects/deals/", input.dealId>>
              /\ DOMAIN reqs[i].body = {"dealstage"}
              /\ reqs[i].body.dealstage = input.dealstage
         ELSE /\ reqs[i].method = "GET"
              /\ "body" \notin DOMAIN reqs[i]
              /\ \A j \in DOMAIN reqs[i].url : reqs[i].url[j] # input.notes

C25_Witness ==
  /\ op \in DealStageOps
  /\ Truthy(input.notes)
  /\ pc = "done"
  /\ result.ok
  /\ DealPatches # {}
  /\ reqs[Len(reqs)].body = [dealstage |-> "closedwon"]

====
